---- MODULE Spec2Model ----
(***************************************************************************)
(* A model of the aggregation pipeline (etl/services/top100_etl.py and     *)
(* the sync_top100 management command) and of the identity-mapping         *)
(* builders (sofa_sport/scripts/build_team_mapping.py and                  *)
(* build_player_mapping.py).                                               *)
(*                                                                         *)
(* Scaled quantities: a percentage is held in tenths of a percent          *)
(* (round(x, 1) * 10) and average_points in hundredths (round(x, 2) * 100).*)
(***************************************************************************)
EXTENDS Integers, Sequences, FiniteSets, Bags, TLC

VARIABLES
    athletes,       \* ids of the rows of the local Athlete table
    config,         \* Top100Config: [manager_count]
    dom,            \* the upstream responses the remote API may give
    db,             \* committed contents of the four Top100 tables
    tx,             \* contents seen inside the open transaction
    pc,             \* position of the command: idle, standings, picks, ...
    cmd,            \* the running/last command: [start, end]
    game_week,      \* argument of the running sync_top100_for_gameweek
    page,           \* loop variable of fetch_top_managers
    managers_data,  \* managers fetched so far / returned by fetch_top_managers
    idx,            \* loop index of the manager loop (1-based)
    all_picks, all_transfers, chip_usage, captain_picks, points_list,
    outcome,        \* per gameweek of the command: none, started, done, raised
    aborted,        \* what the last raising pass had written when it raised
    passes,         \* number of passes started so far
    inlog,          \* upstream responses consumed by the running pass
    srcOf,          \* per gameweek: the responses its committed summary came from
    fetched,        \* fetch_top_managers' frame, up to the state in which it
                    \* has returned: the pages requested and their results
    last_call,      \* whether the pass has made a remote call, and whether
                    \* time.sleep has run since the last one
    team_mapping_file,    \* mappings/team_mapping.json: [exists, rows]
    player_mapping_file,  \* mappings/player_mapping.json: [exists, rows]
    build_log,      \* the builder runs so far: input, outcome, files left
    query,          \* argument of the last call of the matching engine
    candidates,     \* candidate list of the last call of the matching engine
    best_match,     \* what that call returned, and whether the builder keeps it
    first_match,    \* the first call of the matching engine and what it returned
    summary_args,   \* arguments of the last call of _compute_summary alone
    summary_result  \* the lists of the summary it computed

passVars == <<athletes, config, dom, db, tx, pc, cmd, game_week, page,
              managers_data, idx, all_picks, all_transfers, chip_usage,
              captain_picks, points_list, outcome, aborted, passes, inlog, srcOf,
              fetched, last_call>>

buildVars == <<team_mapping_file, player_mapping_file, build_log>>

matchVars == <<query, candidates, best_match, first_match>>

reduceVars == <<summary_args, summary_result>>

vars == <<passVars, buildVars, matchVars, reduceVars>>

----------------------------------------------------------------------------
(* Bounds of the model *)

MaxGW == 2            \* gameweeks 1..MaxGW
MaxPasses == 2        \* passes started over the whole behaviour
MaxManagers == 2      \* rows the standings endpoint holds over all pages
MaxRuns == 3          \* builder runs over the whole behaviour
MaxSofaTeams == 2     \* teams in one statistics response
MaxSquadSize == 1     \* players in one squad response
MaxCandidates == 3
MaxPlayers == 24
MaxRepeated == 2    \* candidates in one call of the matching engine

GWs == 1..MaxGW

(* Program constants *)

PageSize == 50        \* managers per standings page
StartingSlots == 11   \* positions 1..11 are the starting eleven
SquadSize == 15       \* positions 1..15
TemplateTeamSize == 11
TemplateSquadSize == 22
MostCaptainedSize == 5
MostTransferredSize == 10

NoChip == "none"      \* active_chip is null

----------------------------------------------------------------------------
(* Generic helpers *)

Min(a, b) == IF a < b THEN a ELSE b

SeqsUpTo(S, n) == UNION {[1..k -> S] : k \in 0..n}

RECURSIVE SumSeq(_)
SumSeq(s) == IF s = <<>> THEN 0 ELSE Head(s) + SumSeq(Tail(s))

MaxOfSeq(s) == CHOOSE x \in {s[i] : i \in 1..Len(s)} :
                  \A j \in 1..Len(s) : s[j] <= x
MinOfSeq(s) == CHOOSE x \in {s[i] : i \in 1..Len(s)} :
                  \A j \in 1..Len(s) : s[j] >= x

(* Python round(): round half to even.  RoundDiv(a, b) = round(a / b).    *)
RoundDiv(a, b) ==
    LET q == a \div b
        r == a % b
    IN  IF 2 * r < b THEN q
        ELSE IF 2 * r > b THEN q + 1
        ELSE IF q % 2 = 0 THEN q ELSE q + 1

----------------------------------------------------------------------------
(* collections.Counter: a dict, so insertion-ordered.  A counter is a     *)
(* sequence of [key, n] in order of first insertion.                      *)

EmptyCounter == <<>>

CounterInc(c, k) ==
    IF \E i \in 1..Len(c) : c[i].key = k
    THEN [i \in 1..Len(c) |->
            IF c[i].key = k THEN [key |-> k, n |-> c[i].n + 1] ELSE c[i]]
    ELSE Append(c, [key |-> k, n |-> 1])

RECURSIVE CounterIncAll(_, _)
CounterIncAll(c, ks) ==
    IF ks = <<>> THEN c ELSE CounterIncAll(CounterInc(c, Head(ks)), Tail(ks))

CounterTotal(c) == SumSeq([i \in 1..Len(c) |-> c[i].n])

CounterGet(c, k) ==
    IF \E i \in 1..Len(c) : c[i].key = k
    THEN (CHOOSE e \in {c[i] : i \in 1..Len(c)} : e.key = k).n
    ELSE 0

(* Faulty variant: the first n in insertion order, unsorted.              *)
FirstInserted(c, n) == SubSeq(c, 1, Min(n, Len(c)))

(* Faulty variant: among equal counts the last inserted comes first.      *)
MostCommonLastFirst(c, n) ==
    LET Before(i) == Cardinality({j \in 1..Len(c) :
                        \/ c[j].n > c[i].n
                        \/ c[j].n = c[i].n /\ j > i})
        sorted == [p \in 1..Len(c) |->
                    c[CHOOSE i \in 1..Len(c) : Before(i) = p - 1]]
    IN  SubSeq(sorted, 1, Min(n, Len(c)))

(* Counter.most_common(n): sorted by count, descending, stable, first n.  *)
MostCommon(c, n) ==
    LET Before(i) == Cardinality({j \in 1..Len(c) :
                        \/ c[j].n > c[i].n
                        \/ c[j].n = c[i].n /\ j < i})
        sorted == [p \in 1..Len(c) |->
                    c[CHOOSE i \in 1..Len(c) : Before(i) = p - 1]]
    IN  SubSeq(sorted, 1, Min(n, Len(c)))

----------------------------------------------------------------------------
(* Upstream responses *)

Pick(el, pos, cap) == [element |-> el, position |-> pos, is_captain |-> cap]

PicksFail == [kind |-> "fail", active_chip |-> NoChip, picks |-> <<>>]
\* a 200 response whose JSON has "picks": null
PicksMalformed == [kind |-> "malformed", active_chip |-> NoChip, picks |-> <<>>]
PicksOk(chip, picks) == [kind |-> "ok", active_chip |-> chip, picks |-> picks]

Transfer(ev, in, out) == [event |-> ev, element_in |-> in, element_out |-> out]

TransfersFail == [kind |-> "fail", items |-> <<>>]
TransfersOk(items) == [kind |-> "ok", items |-> items]

StandingsFail == [kind |-> "fail", results |-> <<>>]
StandingsOk(rows) == [kind |-> "ok", results |-> rows]

Row(e, pts) == [entry |-> e, event_total |-> pts]

(* A standings page holds one of the lists dom.lists, and the endpoint    *)
(* at most dom.max_rows rows over all pages.                              *)
PageResponses(already) ==
    {StandingsFail} \cup
    {StandingsOk(rows) : rows \in
        {l \in dom.lists : Len(already) + Len(l) <= dom.max_rows}}

----------------------------------------------------------------------------
(* The four tables.  managers, picks and summaries are sets of rows; the  *)
(* transfers table has no uniqueness constraint, so it is a bag of rows.  *)

EmptyTables == [managers |-> {}, picks |-> {}, transfers |-> EmptyBag,
                summaries |-> {}]

(* Faulty variant: no transaction around the pass, its writes stay.        *)
RollbackKeepsWrites(committed, working) == working

(* @transaction.atomic: what is committed when the function raises.       *)
Rollback(committed, working) == committed

(* Faulty variant: the manager row is not written.                        *)
ManagerNotWritten(table, e, gw, pts) == table

(* Top100Manager.objects.update_or_create(entry_id, game_week, defaults): *)
(* the defaults do not name active_chip, so an existing row keeps its own.*)
UpsertManager(table, e, gw, pts) ==
    LET old == {m \in table : m.entry = e /\ m.game_week = gw}
    IN  IF old = {}
        THEN table \cup {[entry |-> e, game_week |-> gw, event_total |-> pts,
                          active_chip |-> NoChip]}
        ELSE (table \ old) \cup {[m EXCEPT !.event_total = pts] : m \in old}

(* manager.active_chip = active_chip; manager.save(update_fields=[...])   *)
SaveChip(table, e, gw, chip) ==
    {IF m.entry = e /\ m.game_week = gw
       THEN [m EXCEPT !.active_chip = chip] ELSE m : m \in table}

(* Top100Pick.objects.update_or_create(manager, athlete_id, defaults)     *)
UpsertPick(table, e, gw, pick) ==
    LET old == {p \in table : p.entry = e /\ p.game_week = gw
                              /\ p.athlete = pick.element}
    IN  (table \ old) \cup
        {[entry |-> e, game_week |-> gw, athlete |-> pick.element,
          position |-> pick.position, is_captain |-> pick.is_captain]}

RECURSIVE UpsertPicks(_, _, _, _)
UpsertPicks(table, e, gw, picks) ==
    IF picks = <<>> THEN table
    ELSE UpsertPicks(UpsertPick(table, e, gw, Head(picks)), e, gw, Tail(picks))

(* Faulty variant: a row is created for every transfer met.               *)
CreateTransfer(bag, e, gw, t) ==
    bag (+) SetToBag({[entry |-> e, game_week |-> gw,
                       element_in |-> t.element_in,
                       element_out |-> t.element_out]})

(* Top100Transfer.objects.get_or_create(manager, game_week, in, out)      *)
GetOrCreateTransfer(bag, e, gw, t) ==
    LET row == [entry |-> e, game_week |-> gw,
                element_in |-> t.element_in, element_out |-> t.element_out]
    IN  IF BagIn(row, bag) THEN bag ELSE bag (+) SetToBag({row})

RECURSIVE GetOrCreateTransfers(_, _, _, _)
GetOrCreateTransfers(bag, e, gw, ts) ==
    IF ts = <<>> THEN bag
    ELSE GetOrCreateTransfers(GetOrCreateTransfer(bag, e, gw, Head(ts)),
                              e, gw, Tail(ts))

(* Faulty variant: the new lists are merged into the prior row's.         *)
UpsertSummaryMerging(table, row) ==
    LET old == {s \in table : s.game_week = row.game_week}
    IN  (table \ old) \cup
        (IF old = {} THEN {row}
         ELSE {[row EXCEPT !.template_squad = s.template_squad \o @,
                           !.chip_usage = s.chip_usage \o @] : s \in old})

(* Top100Summary.objects.update_or_create(game_week, defaults=all fields) *)
UpsertSummary(table, row) ==
    {s \in table : s.game_week # row.game_week} \cup {row}

----------------------------------------------------------------------------
(* fetch_manager_picks / fetch_manager_transfers: an exception of the     *)
(* client call is caught and becomes None / [].                           *)

NonePicks == [kind |-> "none", active_chip |-> NoChip, picks |-> <<>>]

fetch_manager_picks(resp) == IF resp.kind = "fail" THEN NonePicks ELSE resp

fetch_manager_transfers(resp) == IF resp.kind = "fail" THEN <<>> ELSE resp.items

(* Faulty variant: the picks are taken without the look-up.               *)
PicksUnverified(picks) == picks

(* Athlete.objects.filter(id=...).exists() on the picks / transfers       *)
KnownPicks(picks) == SelectSeq(picks, LAMBDA p : p.element \in athletes)

KnownTransfers(ts, gw) ==
    SelectSeq(ts, LAMBDA t : /\ t.event = gw
                             /\ t.element_in \in athletes
                             /\ t.element_out \in athletes)

PickFacts(picks) ==
    [i \in 1..Len(picks) |-> [athlete_id |-> picks[i].element,
                              position |-> picks[i].position,
                              is_captain |-> picks[i].is_captain]]

TransferFacts(ts) ==
    [i \in 1..Len(ts) |-> [element_in |-> ts[i].element_in,
                           element_out |-> ts[i].element_out]]

CaptainIds(picks) ==
    LET caps == SelectSeq(picks, LAMBDA p : p.is_captain)
    IN  [i \in 1..Len(caps) |-> caps[i].element]

----------------------------------------------------------------------------
(* _compute_summary *)

Percentage(count, manager_count) == RoundDiv(count * 1000, manager_count)

SquadOwnership(picks) ==
    CounterIncAll(EmptyCounter, [i \in 1..Len(picks) |-> picks[i].athlete_id])

(* Faulty variant: slot 11 is taken for a bench slot.                     *)
IsStartingOffByOne(pick) == pick.position < StartingSlots

IsStarting(pick) == pick.position <= StartingSlots

StartingOwnership(picks) ==
    LET st == SelectSeq(picks, IsStarting)
    IN  CounterIncAll(EmptyCounter, [i \in 1..Len(st) |-> st[i].athlete_id])

WithPercentage(top, manager_count) ==
    [i \in 1..Len(top) |-> [athlete_id |-> top[i].key, count |-> top[i].n,
                            percentage |-> Percentage(top[i].n, manager_count)]]

WithoutPercentage(top) ==
    [i \in 1..Len(top) |-> [athlete_id |-> top[i].key, count |-> top[i].n]]

TransfersIn(ts) ==
    CounterIncAll(EmptyCounter, [i \in 1..Len(ts) |-> ts[i].element_in])
TransfersOut(ts) ==
    CounterIncAll(EmptyCounter, [i \in 1..Len(ts) |-> ts[i].element_out])

compute_summary(gw, manager_count, picks, transfers, captains, chips, points) ==
    [game_week |-> gw,
     manager_count |-> manager_count,
     average_points |-> IF points = <<>> THEN 0
                        ELSE RoundDiv(100 * SumSeq(points), Len(points)),
     highest_points |-> IF points = <<>> THEN <<>> ELSE <<MaxOfSeq(points)>>,
     lowest_points |-> IF points = <<>> THEN <<>> ELSE <<MinOfSeq(points)>>,
     template_team |-> WithPercentage(
         MostCommon(StartingOwnership(picks), TemplateTeamSize), manager_count),
     template_squad |-> WithPercentage(
         MostCommon(SquadOwnership(picks), TemplateSquadSize), manager_count),
     most_captained |-> WithPercentage(
         MostCommon(captains, MostCaptainedSize), manager_count),
     chip_usage |-> chips,
     most_transferred_in |-> WithoutPercentage(
         MostCommon(TransfersIn(transfers), MostTransferredSize)),
     most_transferred_out |-> WithoutPercentage(
         MostCommon(TransfersOut(transfers), MostTransferredSize))]

----------------------------------------------------------------------------
(* The command and the pass *)

pages_needed == (config.manager_count + (PageSize - 1)) \div PageSize

EmptyLog == [managers |-> <<>>, picks |-> <<>>, transfers |-> <<>>]
NoFetch == [returned |-> FALSE, pages |-> <<>>, results |-> <<>>]

(* Faulty variant: the list is returned whole.                            *)
Untruncated(managers, manager_count) == managers

(* managers[:config.manager_count]                                        *)
Truncate(managers, manager_count) ==
    SubSeq(managers, 1, Min(manager_count, Len(managers)))

(* time.sleep(config.sleep_between_requests) in the page loop: skipped by *)
(* the `break`.                                                           *)
SleepsAfterPage(managers, manager_count) == Len(managers) < manager_count

(* time.sleep inside the `try` of fetch_manager_picks and of              *)
(* fetch_manager_transfers: skipped when the client call raises.          *)
SleepsAfterFetch(resp) == resp.kind # "fail"

(* Faulty variant: the manager loop ends after its first iteration.       *)
ReduceAfterFirst(i, managers) == "reduce"

(* for idx, manager_data in enumerate(managers_data): the next manager,   *)
(* or past the loop the summary.                                          *)
NextManagerOrReduce(i, managers) ==
    IF i = Len(managers) THEN "reduce" ELSE "picks"

NoCall == [made |-> FALSE, slept |-> FALSE]
Called(slept) == [made |-> TRUE, slept |-> slept]

NoAbort == [valid |-> FALSE, at |-> "none", gw |-> 0, dirty |-> FALSE]

(* Entry of sync_top100_for_gameweek(g): the transaction opens on the     *)
(* committed contents `base` and the pass's locals are fresh.             *)
StartPass(g, base) ==
    /\ game_week' = g
    /\ tx' = base
    /\ pc' = "standings"
    /\ page' = 1
    /\ managers_data' = <<>>
    /\ idx' = 1
    /\ all_picks' = <<>>
    /\ all_transfers' = <<>>
    /\ chip_usage' = EmptyCounter
    /\ captain_picks' = EmptyCounter
    /\ points_list' = <<>>
    /\ inlog' = EmptyLog
    /\ fetched' = NoFetch
    /\ last_call' = NoCall
    /\ passes' = passes + 1

ResetLocals ==
    /\ page' = 1
    /\ managers_data' = <<>>
    /\ idx' = 1
    /\ all_picks' = <<>>
    /\ all_transfers' = <<>>
    /\ chip_usage' = EmptyCounter
    /\ captain_picks' = EmptyCounter
    /\ points_list' = <<>>
    /\ inlog' = EmptyLog
    /\ fetched' = NoFetch
    /\ last_call' = NoCall

(* Faulty variant: the range loop catches the exception and goes on.      *)
RaiseAndContinue(at, working) ==
    /\ db' = Rollback(db, working)
    /\ aborted' = [valid |-> TRUE, at |-> at, gw |-> game_week,
                   dirty |-> working # db]
    /\ IF game_week < cmd.end
       THEN /\ StartPass(game_week + 1, db')
            /\ outcome' = [outcome EXCEPT ![game_week] = "raised",
                                          ![game_week + 1] = "started"]
       ELSE /\ tx' = db'
            /\ pc' = "idle"
            /\ outcome' = [outcome EXCEPT ![game_week] = "raised"]
            /\ ResetLocals
            /\ UNCHANGED <<game_week, passes>>
    /\ UNCHANGED <<buildVars, matchVars, reduceVars, athletes, config, dom, cmd, srcOf>>

(* An exception leaves sync_top100_for_gameweek and, uncaught in          *)
(* Command.handle, ends the command; `working` is what the pass had       *)
(* written inside its transaction.                                        *)
Raise(at, working) ==
    /\ db' = Rollback(db, working)
    /\ tx' = db'
    /\ pc' = "idle"
    /\ outcome' = [outcome EXCEPT ![game_week] = "raised"]
    /\ aborted' = [valid |-> TRUE, at |-> at, gw |-> game_week,
                   dirty |-> working # db]
    /\ ResetLocals
    /\ UNCHANGED <<buildVars, matchVars, reduceVars, athletes, config, dom, cmd, game_week, passes, srcOf>>

(* Command.handle without --range: one pass for the given gameweek.       *)
HandleSingle ==
    /\ pc = "idle"
    /\ passes + 1 <= MaxPasses
    /\ \E g \in GWs :
        /\ cmd' = [start |-> g, end |-> g]
        /\ outcome' = [h \in GWs |-> IF h = g THEN "started" ELSE "none"]
        /\ StartPass(g, db)
    /\ aborted' = NoAbort
    /\ UNCHANGED <<buildVars, matchVars, reduceVars, athletes, config, dom, db, srcOf>>

(* Command.handle with --range START END: the first pass of the loop.     *)
HandleRange ==
    /\ pc = "idle"
    /\ \E s \in GWs, e \in GWs :
        /\ s <= e
        /\ passes + (e - s + 1) <= MaxPasses
        /\ cmd' = [start |-> s, end |-> e]
        /\ outcome' = [h \in GWs |-> IF h = s THEN "started" ELSE "none"]
        /\ StartPass(s, db)
    /\ aborted' = NoAbort
    /\ UNCHANGED <<buildVars, matchVars, reduceVars, athletes, config, dom, db, srcOf>>

(* fetch_top_managers: one iteration of the page loop, and after the last *)
(* one the truncation to manager_count.                                   *)
FetchPage ==
    /\ pc = "standings"
    /\ \E resp \in PageResponses(managers_data) :
        IF resp.kind = "fail"
        THEN Raise("standings", tx)
        ELSE LET ms == managers_data \o resp.results
                 last == Len(ms) >= config.manager_count \/ page = pages_needed
                 out == Truncate(ms, config.manager_count)
             IN  /\ managers_data' = IF last THEN out ELSE ms
                 /\ page' = IF last THEN page ELSE page + 1
                 /\ pc' = IF ~last THEN "standings"
                          ELSE IF out = <<>> THEN "reduce" ELSE "picks"
                 /\ inlog' = IF last THEN [inlog EXCEPT !.managers = out]
                             ELSE inlog
                 /\ fetched' = [returned |-> last,
                                pages |-> Append(fetched.pages, page),
                                results |-> Append(fetched.results,
                                                   resp.results)]
                 /\ last_call' = Called(SleepsAfterPage(ms, config.manager_count))
                 /\ UNCHANGED <<buildVars, matchVars, reduceVars, athletes, config, dom, db, tx, cmd, game_week,
                                idx, all_picks, all_transfers, chip_usage,
                                captain_picks, points_list, outcome, aborted,
                                passes, srcOf>>

(* The manager loop's body up to the picks: the manager row, the points,  *)
(* the picks fetch, the chip and the pick rows.                           *)
ProcessPicks ==
    /\ pc = "picks"
    /\ \E resp \in dom.picks :
        LET m == managers_data[idx]
            picks_data == fetch_manager_picks(resp)
            tx1 == [tx EXCEPT !.managers =
                       UpsertManager(@, m.entry, game_week, m.event_total)]
            hasChip == picks_data.kind # "none" /\ picks_data.active_chip # NoChip
            tx2 == IF hasChip
                   THEN [tx1 EXCEPT !.managers =
                           SaveChip(@, m.entry, game_week, picks_data.active_chip)]
                   ELSE tx1
            known == KnownPicks(picks_data.picks)
        IN  IF picks_data.kind = "malformed"
            THEN Raise("picks", tx2)
            ELSE /\ tx' = [tx2 EXCEPT !.picks =
                             UpsertPicks(@, m.entry, game_week, known)]
                 /\ points_list' = Append(points_list, m.event_total)
                 /\ chip_usage' = IF hasChip
                                  THEN CounterInc(chip_usage, picks_data.active_chip)
                                  ELSE chip_usage
                 /\ all_picks' = all_picks \o PickFacts(known)
                 /\ captain_picks' = CounterIncAll(captain_picks, CaptainIds(known))
                 /\ inlog' = [inlog EXCEPT !.picks = Append(@, resp)]
                 /\ fetched' = NoFetch
                 /\ last_call' = Called(SleepsAfterFetch(resp))
                 /\ pc' = "transfers"
                 /\ UNCHANGED <<buildVars, matchVars, reduceVars, athletes, config, dom, db, cmd, game_week, page,
                                managers_data, idx, all_transfers, outcome,
                                aborted, passes, srcOf>>

(* The rest of the manager loop's body: the transfers fetch and rows.     *)
ProcessTransfers ==
    /\ pc = "transfers"
    /\ \E resp \in dom.transfers :
        LET m == managers_data[idx]
            known == KnownTransfers(fetch_manager_transfers(resp), game_week)
        IN  /\ tx' = [tx EXCEPT !.transfers =
                        GetOrCreateTransfers(@, m.entry, game_week, known)]
            /\ all_transfers' = all_transfers \o TransferFacts(known)
            /\ inlog' = [inlog EXCEPT !.transfers = Append(@, resp)]
            /\ idx' = idx + 1
            /\ last_call' = Called(SleepsAfterFetch(resp))
            /\ pc' = NextManagerOrReduce(idx, managers_data)
    /\ UNCHANGED <<buildVars, matchVars, reduceVars, athletes, config, dom, db, cmd, game_week, page,
                   managers_data, all_picks, chip_usage, captain_picks,
                   points_list, outcome, aborted, passes, srcOf, fetched>>

(* Step 3: _compute_summary and its update_or_create.                     *)
ComputeSummary ==
    /\ pc = "reduce"
    /\ tx' = [tx EXCEPT !.summaries = UpsertSummary(@,
                compute_summary(game_week, config.manager_count, all_picks,
                                all_transfers, captain_picks, chip_usage,
                                points_list))]
    /\ pc' = "return"
    /\ fetched' = NoFetch
    /\ UNCHANGED <<buildVars, matchVars, reduceVars, athletes, config, dom, db, cmd, game_week, page,
                   managers_data, idx, all_picks, all_transfers, chip_usage,
                   captain_picks, points_list, outcome, aborted, passes,
                   inlog, srcOf, last_call>>

(* Faulty variant: the command ends after the first pass of a range.      *)
ReturnEndsCommand ==
    /\ pc = "return"
    /\ db' = tx
    /\ srcOf' = [srcOf EXCEPT ![game_week] = [valid |-> TRUE, log |-> inlog]]
    /\ pc' = "idle"
    /\ tx' = tx
    /\ outcome' = [outcome EXCEPT ![game_week] = "done"]
    /\ ResetLocals
    /\ UNCHANGED <<buildVars, matchVars, reduceVars, athletes, config, dom, cmd, aborted, game_week, passes>>

(* The function returns: the transaction commits, and the command's loop  *)
(* goes on to the next gameweek of the range, if any.                     *)
Return ==
    /\ pc = "return"
    /\ db' = tx
    /\ srcOf' = [srcOf EXCEPT ![game_week] = [valid |-> TRUE, log |-> inlog]]
    /\ IF game_week < cmd.end
       THEN /\ StartPass(game_week + 1, tx)
            /\ outcome' = [outcome EXCEPT ![game_week] = "done",
                                          ![game_week + 1] = "started"]
       ELSE /\ pc' = "idle"
            /\ tx' = tx
            /\ outcome' = [outcome EXCEPT ![game_week] = "done"]
            /\ ResetLocals
            /\ UNCHANGED <<game_week, passes>>
    /\ UNCHANGED <<buildVars, matchVars, reduceVars, athletes, config, dom, cmd, aborted>>

(* The commit itself fails (the storage transaction fails).               *)
CommitFails ==
    /\ pc = "return"
    /\ Raise("commit", tx)

Next ==
    \/ HandleSingle
    \/ HandleRange
    \/ FetchPage
    \/ ProcessPicks
    \/ ProcessTransfers
    \/ ComputeSummary
    \/ Return
    \/ CommitFails

(* The statements of a running pass follow one another: the pass always  *)
(* takes its next step.                                                   *)
PassStep ==
    \/ FetchPage
    \/ ProcessPicks
    \/ ProcessTransfers
    \/ ComputeSummary
    \/ Return
    \/ CommitFails

----------------------------------------------------------------------------
(* The identity-mapping builders: league tables and name similarity       *)

NoId == 0             \* None, as an id
NoName == ""          \* None, as a name

TeamThreshold == 80   \* a team match is kept at this score or above
PlayerThreshold == 75 \* a player match is kept at this score or above
FullNameFloor == 85   \* a full-name score from here on earns the boost
FullNameBoost == 5

(* Team.objects.all(): the league's Team rows, in the model's ordering    *)
(* (by id).                                                               *)
Teams ==
    << [id |-> 1, name |-> "Arsenal"],
       [id |-> 2, name |-> "Man City"] >>

(* The league's Athlete rows, ordered by id.  full_name is                *)
(* f"{first_name} {second_name}".strip().                                 *)
Athletes ==
    << [id |-> 1, team_id |-> 1, full_name |-> "Bukayo Saka",
        second_name |-> "Saka", web_name |-> "Saka"],
       [id |-> 2, team_id |-> 1, full_name |-> "Gabriel Martinelli Silva",
        second_name |-> "Martinelli Silva", web_name |-> "Martinelli"],
       [id |-> 3, team_id |-> 1, full_name |-> "Gabriel Fernando de Jesus",
        second_name |-> "Fernando de Jesus", web_name |-> "G.Jesus"],
       [id |-> 4, team_id |-> 2, full_name |-> "Erling Haaland",
        second_name |-> "Haaland", web_name |-> "Haaland"] >>

(* str.lower() on the names that occur.                                   *)
LowerTable ==
       ("Arsenal FC" :> "arsenal fc")
    @@ ("Manchester City" :> "manchester city")
    @@ ("MAN CITY" :> "man city")
    @@ ("Wolverhampton" :> "wolverhampton")
    @@ ("Arsenal" :> "arsenal")
    @@ ("Man City" :> "man city")
    @@ ("Bukayo Saka" :> "bukayo saka")
    @@ ("B. Saka" :> "b. saka")
    @@ ("Gabriel" :> "gabriel")
    @@ ("" :> "")
    @@ ("Martinelli" :> "martinelli")
    @@ ("Erling Braut Haaland" :> "erling braut haaland")
    @@ ("E. Haaland" :> "e. haaland")
    @@ ("Kai Havertz" :> "kai havertz")
    @@ ("K. Havertz" :> "k. havertz")
    @@ ("Erling Haland" :> "erling haland")
    @@ ("Haaland" :> "haaland")
    @@ ("Saka" :> "saka")
    @@ ("Gabriel Martinelli Silva" :> "gabriel martinelli silva")
    @@ ("Martinelli Silva" :> "martinelli silva")
    @@ ("Gabriel Fernando de Jesus" :> "gabriel fernando de jesus")
    @@ ("Fernando de Jesus" :> "fernando de jesus")
    @@ ("G.Jesus" :> "g.jesus")
    @@ ("Erling Haaland" :> "erling haaland")

Lower(s) == LowerTable[s]

(* fuzz.ratio, fuzz.partial_ratio and fuzz.token_sort_ratio of the library  *)
(* on the lower-cased pairs that occur: <<ratio, partial, token_sort>>.    *)
FuzzTable ==
       (<<"arsenal fc", "arsenal">> :> <<82, 100, 82>>)
    @@ (<<"arsenal fc", "man city">> :> <<44, 46, 22>>)
    @@ (<<"manchester city", "arsenal">> :> <<18, 29, 18>>)
    @@ (<<"manchester city", "man city">> :> <<70, 62, 70>>)
    @@ (<<"man city", "arsenal">> :> <<27, 29, 27>>)
    @@ (<<"man city", "man city">> :> <<100, 100, 100>>)
    @@ (<<"wolverhampton", "arsenal">> :> <<10, 31, 10>>)
    @@ (<<"wolverhampton", "man city">> :> <<19, 31, 19>>)
    @@ (<<"bukayo saka", "bukayo saka">> :> <<100, 100, 100>>)
    @@ (<<"b. saka", "saka">> :> <<73, 100, 80>>)
    @@ (<<"bukayo saka", "gabriel martinelli silva">> :> <<29, 30, 29>>)
    @@ (<<"b. saka", "martinelli silva">> :> <<26, 43, 27>>)
    @@ (<<"b. saka", "martinelli">> :> <<12, 14, 12>>)
    @@ (<<"bukayo saka", "gabriel fernando de jesus">> :> <<28, 29, 22>>)
    @@ (<<"b. saka", "fernando de jesus">> :> <<17, 31, 17>>)
    @@ (<<"b. saka", "g.jesus">> :> <<29, 31, 31>>)
    @@ (<<"bukayo saka", "erling haaland">> :> <<24, 30, 24>>)
    @@ (<<"b. saka", "haaland">> :> <<29, 29, 31>>)
    @@ (<<"gabriel", "bukayo saka">> :> <<11, 14, 11>>)
    @@ (<<"gabriel", "gabriel martinelli silva">> :> <<45, 100, 45>>)
    @@ (<<"gabriel", "gabriel fernando de jesus">> :> <<44, 100, 44>>)
    @@ (<<"gabriel", "erling haaland">> :> <<29, 43, 29>>)
    @@ (<<"martinelli", "bukayo saka">> :> <<10, 11, 10>>)
    @@ (<<"martinelli", "saka">> :> <<14, 25, 14>>)
    @@ (<<"martinelli", "gabriel martinelli silva">> :> <<59, 100, 59>>)
    @@ (<<"martinelli", "martinelli silva">> :> <<77, 100, 77>>)
    @@ (<<"martinelli", "martinelli">> :> <<100, 100, 100>>)
    @@ (<<"martinelli", "gabriel fernando de jesus">> :> <<29, 50, 29>>)
    @@ (<<"martinelli", "fernando de jesus">> :> <<22, 30, 22>>)
    @@ (<<"martinelli", "g.jesus">> :> <<12, 14, 12>>)
    @@ (<<"martinelli", "erling haaland">> :> <<33, 30, 33>>)
    @@ (<<"martinelli", "haaland">> :> <<24, 29, 24>>)
    @@ (<<"erling braut haaland", "bukayo saka">> :> <<19, 45, 32>>)
    @@ (<<"e. haaland", "saka">> :> <<29, 50, 31>>)
    @@ (<<"erling braut haaland", "gabriel martinelli silva">> :> <<27, 33, 41>>)
    @@ (<<"e. haaland", "martinelli silva">> :> <<23, 30, 24>>)
    @@ (<<"e. haaland", "martinelli">> :> <<20, 29, 21>>)
    @@ (<<"erling braut haaland", "gabriel fernando de jesus">> :> <<27, 33, 31>>)
    @@ (<<"e. haaland", "fernando de jesus">> :> <<30, 40, 38>>)
    @@ (<<"e. haaland", "g.jesus">> :> <<12, 14, 12>>)
    @@ (<<"erling braut haaland", "erling haaland">> :> <<82, 64, 82>>)
    @@ (<<"e. haaland", "haaland">> :> <<82, 100, 88>>)
    @@ (<<"kai havertz", "bukayo saka">> :> <<36, 40, 18>>)
    @@ (<<"k. havertz", "saka">> :> <<29, 25, 31>>)
    @@ (<<"kai havertz", "gabriel martinelli silva">> :> <<23, 45, 34>>)
    @@ (<<"k. havertz", "martinelli silva">> :> <<23, 30, 32>>)
    @@ (<<"k. havertz", "martinelli">> :> <<30, 30, 32>>)
    @@ (<<"kai havertz", "gabriel fernando de jesus">> :> <<28, 45, 28>>)
    @@ (<<"k. havertz", "fernando de jesus">> :> <<15, 20, 23>>)
    @@ (<<"k. havertz", "g.jesus">> :> <<24, 29, 12>>)
    @@ (<<"kai havertz", "erling haaland">> :> <<32, 36, 24>>)
    @@ (<<"k. havertz", "haaland">> :> <<24, 29, 25>>)
    @@ (<<"erling haland", "bukayo saka">> :> <<25, 21, 25>>)
    @@ (<<"haaland", "saka">> :> <<36, 50, 36>>)
    @@ (<<"erling haland", "gabriel martinelli silva">> :> <<32, 43, 32>>)
    @@ (<<"haaland", "martinelli silva">> :> <<17, 29, 17>>)
    @@ (<<"haaland", "martinelli">> :> <<24, 29, 24>>)
    @@ (<<"erling haland", "gabriel fernando de jesus">> :> <<32, 46, 32>>)
    @@ (<<"haaland", "fernando de jesus">> :> <<25, 43, 25>>)
    @@ (<<"haaland", "g.jesus">> :> <<0, 0, 0>>)
    @@ (<<"erling haland", "erling haaland">> :> <<96, 92, 96>>)
    @@ (<<"haaland", "haaland">> :> <<100, 100, 100>>)

ratio(a, b) == FuzzTable[<<a, b>>][1]
partial_ratio(a, b) == FuzzTable[<<a, b>>][2]
token_sort_ratio(a, b) == FuzzTable[<<a, b>>][3]

Max(a, b) == IF a > b THEN a ELSE b

(* dict assignment mapping[key] = row: a key already present keeps its    *)
(* place and takes the new row, a new key goes to the end.                *)
(* Faulty variant: a list of rows, every assignment adds one.             *)
DictSetAppending(mapping, row) == Append(mapping, row)

DictSet(mapping, row) ==
    IF \E i \in DOMAIN mapping : mapping[i].sofasport_id = row.sofasport_id
    THEN [i \in DOMAIN mapping |->
            IF mapping[i].sofasport_id = row.sofasport_id
            THEN row ELSE mapping[i]]
    ELSE Append(mapping, row)

(* open(path, 'w') and json.dump: the file holds the new mapping only.    *)
NoFile == [exists |-> FALSE, rows |-> <<>>]

(* Faulty variant: the rows are added to those the file holds.            *)
save_mapping_appending(file, mapping) ==
    [exists |-> TRUE, rows |-> file.rows \o mapping]

save_mapping(file, mapping) == [exists |-> TRUE, rows |-> mapping]

----------------------------------------------------------------------------
(* build_team_mapping.py *)

get_fpl_teams == Teams

(* The statistics response: failed or without 'data' (an empty list), or  *)
(* the teams of its avgRating items.                                      *)
TeamsFail == [ok |-> FALSE, teams |-> <<>>]
TeamsOk(teams) == [ok |-> TRUE, teams |-> teams]

get_sofasport_teams(response) ==
    IF response.ok THEN response.teams ELSE <<>>

(* str() of the analytics ids that occur; a player without an id gives    *)
(* str('').                                                               *)
StrTable == (10 :> "10") @@ (20 :> "20") @@ (100 :> "100") @@ (200 :> "200")
            @@ (300 :> "300") @@ (400 :> "400") @@ (NoId :> "")

str(n) == StrTable[n]

TeamScore(sofa_name, fpl_name) ==
    Max(ratio(Lower(sofa_name), Lower(fpl_name)),
        Max(partial_ratio(Lower(sofa_name), Lower(fpl_name)),
            token_sort_ratio(Lower(sofa_name), Lower(fpl_name))))

TeamImproves(score, best_score) == score > best_score

RECURSIVE TeamLoop(_, _, _, _)
TeamLoop(sofa_name, fpl_teams, i, best) ==
    IF i > Len(fpl_teams) THEN best
    ELSE LET score == TeamScore(sofa_name, fpl_teams[i].name)
         IN TeamLoop(sofa_name, fpl_teams, i + 1,
                     IF TeamImproves(score, best.score)
                     THEN [fpl_id |-> fpl_teams[i].id,
                           fpl_name |-> fpl_teams[i].name,
                           score |-> score]
                     ELSE best)

fuzzy_match_team(sofa_name, fpl_teams) ==
    TeamLoop(sofa_name, fpl_teams, 1,
             [fpl_id |-> NoId, fpl_name |-> NoName, score |-> 0])

TeamKept(m) == m.score >= TeamThreshold

TeamRow(sofa_team, m) ==
    [sofasport_id |-> str(sofa_team.id),
     sofasport_name |-> sofa_team.name,
     fpl_id |-> m.fpl_id,
     fpl_name |-> m.fpl_name,
     match_score |-> m.score]

(* The loop of build_team_mapping.  Formatting a best name of None with   *)
(* a width, in the branch of the unmatched, raises TypeError.             *)
RECURSIVE TeamsLoop(_, _, _, _)
TeamsLoop(sofa_teams, fpl_teams, i, acc) ==
    IF i > Len(sofa_teams) \/ acc.raised THEN acc
    ELSE LET m == fuzzy_match_team(sofa_teams[i].name, fpl_teams)
         IN TeamsLoop(sofa_teams, fpl_teams, i + 1,
                IF TeamKept(m)
                THEN [acc EXCEPT !.mapping = DictSet(@, TeamRow(sofa_teams[i], m))]
                ELSE IF m.fpl_id = NoId
                     THEN [acc EXCEPT !.raised = TRUE]
                     ELSE acc)

build_team_mapping(response) ==
    TeamsLoop(get_sofasport_teams(response), get_fpl_teams, 1,
              [raised |-> FALSE, mapping |-> <<>>])

----------------------------------------------------------------------------
(* build_player_mapping.py *)

(* Faulty variant: the candidates are the players of every team.          *)
PlayersOfAllTeams(team_id) == Athletes

get_fpl_players_by_team(team_id) ==
    SelectSeq(Athletes, LAMBDA a : a.team_id = team_id)

(* The squad response: failed or without 'data' (an empty list), or its   *)
(* players; a player without an id (str of '' is empty) is left out.      *)
SquadFail == [ok |-> FALSE, players |-> <<>>]
SquadOk(players) == [ok |-> TRUE, players |-> players]

SofaPlayer(player, team_id) ==
    [id |-> str(player.id), name |-> player.name,
     short_name |-> player.short_name, team_id |-> team_id]

get_sofasport_players(response, team_id) ==
    IF ~response.ok THEN <<>>
    ELSE LET with_id == SelectSeq(response.players, LAMBDA p : str(p.id) # "")
         IN [i \in DOMAIN with_id |-> SofaPlayer(with_id[i], team_id)]

max_full_score(sofa_name, fpl_player) ==
    Max(ratio(Lower(sofa_name), Lower(fpl_player.full_name)),
        Max(partial_ratio(Lower(sofa_name), Lower(fpl_player.full_name)),
            token_sort_ratio(Lower(sofa_name), Lower(fpl_player.full_name))))

PlayerScore(sofa_player, fpl_player) ==
    LET full == max_full_score(sofa_player.name, fpl_player)
        combined ==
            IF sofa_player.short_name # ""
            THEN Max(full,
                     Max(ratio(Lower(sofa_player.short_name),
                               Lower(fpl_player.second_name)),
                         ratio(Lower(sofa_player.short_name),
                               Lower(fpl_player.web_name))))
            ELSE full
    IN IF full >= FullNameFloor
       THEN Max(combined, full + FullNameBoost)
       ELSE combined

(* Faulty variant: a candidate that ties the best replaces it.            *)
PlayerImprovesOrTies(score, best_score) == score >= best_score

PlayerImproves(score, best_score) == score > best_score

RECURSIVE PlayerLoop(_, _, _, _)
PlayerLoop(sofa_player, fpl_players, i, best) ==
    IF i > Len(fpl_players) THEN best
    ELSE LET score == PlayerScore(sofa_player, fpl_players[i])
         IN PlayerLoop(sofa_player, fpl_players, i + 1,
                       IF PlayerImproves(score, best.score)
                       THEN [fpl_id |-> fpl_players[i].id,
                             fpl_web_name |-> fpl_players[i].web_name,
                             fpl_full_name |-> fpl_players[i].full_name,
                             score |-> score]
                       ELSE best)

(* Faulty variant: the engine starts from the best match it returned     *)
(* last.                                                                  *)
fuzzy_match_player_from_last(sofa_player, fpl_players) ==
    PlayerLoop(sofa_player, fpl_players, 1,
               [fpl_id |-> best_match.fpl_id, fpl_web_name |-> NoName,
                fpl_full_name |-> NoName, score |-> best_match.score])

fuzzy_match_player(sofa_player, fpl_players) ==
    PlayerLoop(sofa_player, fpl_players, 1,
               [fpl_id |-> NoId, fpl_web_name |-> NoName,
                fpl_full_name |-> NoName, score |-> 0])

PlayerKept(m) == m.fpl_id # NoId /\ m.score >= PlayerThreshold

PlayerRow(sofa_player, m, fpl_team_id, sofa_team_id) ==
    [sofasport_id |-> sofa_player.id,
     sofasport_name |-> sofa_player.name,
     fpl_id |-> m.fpl_id,
     fpl_web_name |-> m.fpl_web_name,
     fpl_full_name |-> m.fpl_full_name,
     fpl_team_id |-> fpl_team_id,
     sofasport_team_id |-> sofa_team_id,
     match_score |-> m.score]

(* The inner loop of build_player_mapping over one team's squad.          *)
RECURSIVE SquadLoop(_, _, _, _, _)
SquadLoop(sofa_players, fpl_players, team_info, i, acc) ==
    IF i > Len(sofa_players) THEN acc
    ELSE LET m == fuzzy_match_player(sofa_players[i], fpl_players)
         IN SquadLoop(sofa_players, fpl_players, team_info, i + 1,
                IF PlayerKept(m)
                THEN [acc EXCEPT
                        !.mapping = DictSet(@, PlayerRow(sofa_players[i], m,
                                                   team_info.fpl_id,
                                                   team_info.sofasport_id)),
                        !.total_mapped = @ + 1]
                ELSE [acc EXCEPT !.total_unmatched = @ + 1])

(* The outer loop over team_mapping.items(); squads[i] is the response    *)
(* to the squad request for the i-th team of the mapping.                 *)
RECURSIVE TeamMappingLoop(_, _, _, _)
TeamMappingLoop(team_mapping, squads, i, acc) ==
    IF i > Len(team_mapping) THEN acc
    ELSE TeamMappingLoop(team_mapping, squads, i + 1,
            SquadLoop(get_sofasport_players(squads[i],
                                            team_mapping[i].sofasport_id),
                      get_fpl_players_by_team(team_mapping[i].fpl_id),
                      team_mapping[i], 1, acc))

(* build_player_mapping: load_team_mapping raises FileNotFoundError when  *)
(* the file is missing, and the success rate divides by the number of     *)
(* players processed (ZeroDivisionError when it is zero).                 *)
build_player_mapping(team_file, squads) ==
    IF ~team_file.exists
    THEN [raised |-> TRUE, mapping |-> <<>>, total_mapped |-> 0,
          total_unmatched |-> 0]
    ELSE LET acc == TeamMappingLoop(team_file.rows, squads, 1,
                        [raised |-> FALSE, mapping |-> <<>>,
                         total_mapped |-> 0, total_unmatched |-> 0])
         IN [acc EXCEPT
               !.raised = (acc.total_mapped + acc.total_unmatched = 0)]

----------------------------------------------------------------------------
(* The two scripts.  Each run is one step: the only write is the final    *)
(* save_mapping, and an exception out of the build is caught by the       *)
(* script after nothing has been saved.                                   *)

(* What the analytics provider may answer.                                *)
SofaTeamEntries ==
    { [id |-> 10, name |-> "Arsenal FC"],
      [id |-> 10, name |-> "Manchester City"],
      [id |-> 20, name |-> "MAN CITY"],
      [id |-> 20, name |-> "Arsenal FC"] }

SofaPlayerEntries ==
    { [id |-> 100, name |-> "Bukayo Saka", short_name |-> "B. Saka"],
      [id |-> 100, name |-> "Gabriel", short_name |-> ""],
      [id |-> 200, name |-> "Martinelli", short_name |-> "Martinelli"],
      [id |-> 200, name |-> "Erling Braut Haaland", short_name |-> "E. Haaland"],
      [id |-> 300, name |-> "Kai Havertz", short_name |-> "K. Havertz"],
      [id |-> NoId, name |-> "Kai Havertz", short_name |-> "K. Havertz"] }

TeamsResponses ==
    {TeamsFail} \cup {TeamsOk(t) : t \in SeqsUpTo(SofaTeamEntries, MaxSofaTeams)}

SquadResponses ==
    {SquadFail} \cup {SquadOk(p) : p \in SeqsUpTo(SofaPlayerEntries, MaxSquadSize)}

Run(builder, input, raised, teams, players) ==
    [builder |-> builder, input |-> input, raised |-> raised,
     teams |-> teams, players |-> players]

RunTeamBuilder ==
    /\ Len(build_log) < MaxRuns
    /\ \E response \in TeamsResponses :
         LET built == build_team_mapping(response)
             file == IF built.raised THEN team_mapping_file
                     ELSE save_mapping(team_mapping_file, built.mapping)
         IN /\ team_mapping_file' = file
            /\ build_log' = Append(build_log,
                                Run("team", response, built.raised,
                                    file, player_mapping_file))
    /\ UNCHANGED <<player_mapping_file, passVars, matchVars, reduceVars>>

RunPlayerBuilder ==
    /\ Len(build_log) < MaxRuns
    /\ \E squads \in [1..Len(team_mapping_file.rows) -> SquadResponses] :
         LET built == build_player_mapping(team_mapping_file, squads)
             file == IF built.raised THEN player_mapping_file
                     ELSE save_mapping(player_mapping_file, built.mapping)
         IN /\ player_mapping_file' = file
            /\ build_log' = Append(build_log,
                                Run("player",
                                    [team_mapping |-> team_mapping_file,
                                     squads |-> squads],
                                    built.raised, team_mapping_file, file))
    /\ UNCHANGED <<team_mapping_file, passVars, matchVars, reduceVars>>

NextBuild ==
    \/ RunTeamBuilder
    \/ RunPlayerBuilder

----------------------------------------------------------------------------
(* The matching engine on its own: one call of fuzzy_match_team or of     *)
(* fuzzy_match_player, and the builder's decision to keep the match.      *)

DistinctSeqs(rows, n) ==
    {s \in SeqsUpTo({rows[i] : i \in DOMAIN rows}, n) :
        \A i, j \in DOMAIN s : i # j => s[i] # s[j]}

NoQuery == [kind |-> "none", name |-> "", short_name |-> ""]

Call(q, c, m, other) ==
    [query |-> q, candidates |-> c, best_match |-> m, other |-> other]

(* One call of fuzzy_match_team and the builder's test of the result.     *)
TeamCall(names, lists) ==
    \E name \in names, fpl_teams \in lists :
        LET m == fuzzy_match_team(name, fpl_teams)
        IN /\ query' = [kind |-> "team", name |-> name, short_name |-> ""]
           /\ candidates' = fpl_teams
           /\ best_match' = [fpl_id |-> m.fpl_id, score |-> m.score,
                             kept |-> TeamKept(m)]

(* One call of fuzzy_match_player and the builder's test of the result.   *)
PlayerCall(players, lists) ==
    \E p \in players, fpl_players \in lists :
        LET m == fuzzy_match_player(SofaPlayer(p, "10"), fpl_players)
        IN /\ query' = [kind |-> "player", name |-> p.name,
                        short_name |-> p.short_name]
           /\ candidates' = fpl_players
           /\ best_match' = [fpl_id |-> m.fpl_id, score |-> m.score,
                             kept |-> PlayerKept(m)]

(* A player whose full name is spelt differently by the provider and     *)
(* whose short name is the league's web name.                             *)
MisspeltPlayer == [id |-> 400, name |-> "Erling Haland", short_name |-> "Haaland"]

MatchTeam ==
    /\ TeamCall({e.name : e \in SofaTeamEntries} \cup {"Wolverhampton"},
                DistinctSeqs(Teams, MaxCandidates))
    /\ UNCHANGED <<first_match, passVars, buildVars, reduceVars>>

MatchPlayer ==
    /\ PlayerCall(SofaPlayerEntries \cup {MisspeltPlayer},
                  DistinctSeqs(Athletes, MaxCandidates))
    /\ UNCHANGED <<first_match, passVars, buildVars, reduceVars>>

NextMatch ==
    \/ MatchTeam
    \/ MatchPlayer

(* Calls of the engine one after another, on few queries and candidate    *)
(* lists, the first call being remembered.                                *)
Remember ==
    first_match' =
        IF first_match.query = NoQuery
        THEN Call(query', candidates', best_match', FALSE)
        ELSE [first_match EXCEPT !.other =
                 \/ @
                 \/ query' # first_match.query
                 \/ candidates' # first_match.candidates]

RematchTeam ==
    /\ TeamCall({"Arsenal FC", "MAN CITY"}, DistinctSeqs(Teams, MaxRepeated))
    /\ Remember
    /\ UNCHANGED <<passVars, buildVars, reduceVars>>

RematchPlayer ==
    /\ PlayerCall({p \in SofaPlayerEntries : p.name = "Bukayo Saka"}
                     \cup {MisspeltPlayer},
                  DistinctSeqs(Athletes, MaxRepeated))
    /\ Remember
    /\ UNCHANGED <<passVars, buildVars, reduceVars>>

NextRematch ==
    \/ RematchTeam
    \/ RematchPlayer

----------------------------------------------------------------------------
(* _compute_summary alone, on the lists of a cohort in which the players  *)
(* 1..n are picked once each, in that order, and players h and k (one of *)
(* the last two) once more; odd players start, even players sit on the    *)
(* bench; the transfers bring the players in in that order and out in the *)
(* reverse order.                                                         *)

Keys(n, h, k) ==
    [i \in 1..n |-> i] \o (IF h > 0 THEN <<h>> ELSE <<>>)
                       \o (IF k > 0 THEN <<k>> ELSE <<>>)

NoSummaryArgs ==
    [manager_count |-> 0, all_picks |-> <<>>, all_transfers |-> <<>>,
     captain_picks |-> EmptyCounter]

SummaryArgs(keys) ==
    [manager_count |-> Len(keys),
     all_picks |-> [i \in 1..Len(keys) |->
                      [athlete_id |-> keys[i],
                       position |-> IF keys[i] % 2 = 1 THEN 1
                                    ELSE StartingSlots + 1,
                       is_captain |-> TRUE]],
     all_transfers |-> [i \in 1..Len(keys) |->
                          [element_in |-> keys[i],
                           element_out |-> keys[Len(keys) + 1 - i]]],
     captain_picks |-> CounterIncAll(EmptyCounter, keys)]

(* One call of the function, which reads nothing but its arguments.       *)
Reduce ==
    /\ summary_args = NoSummaryArgs
    /\ \E n \in 0..MaxPlayers : \E h \in 0..n, k \in {0, n - 1, n} \cap 0..n :
         LET args == SummaryArgs(Keys(n, h, k))
         IN /\ summary_args' = args
            /\ summary_result' =
                  compute_summary(1, args.manager_count, args.all_picks,
                                  args.all_transfers, args.captain_picks,
                                  EmptyCounter, <<>>)
    /\ UNCHANGED <<passVars, buildVars, matchVars>>

NextReduce == Reduce

----------------------------------------------------------------------------
(* Initial states: empty tables, no command run yet.                      *)

InitPass(cfgs, players, d) ==
    /\ config \in cfgs
    /\ athletes = players
    /\ dom = d
    /\ db = EmptyTables
    /\ tx = EmptyTables
    /\ pc = "idle"
    /\ cmd = [start |-> 1, end |-> 0]
    /\ game_week = 1
    /\ page = 1
    /\ managers_data = <<>>
    /\ idx = 1
    /\ all_picks = <<>>
    /\ all_transfers = <<>>
    /\ chip_usage = EmptyCounter
    /\ captain_picks = EmptyCounter
    /\ points_list = <<>>
    /\ outcome = [g \in GWs |-> "none"]
    /\ aborted = NoAbort
    /\ passes = 0
    /\ inlog = EmptyLog
    /\ fetched = NoFetch
    /\ last_call = NoCall
    /\ srcOf = [g \in GWs |-> [valid |-> FALSE, log |-> EmptyLog]]

(* Athletes 1 and 2 are in the local table, 3 is not.                     *)
MainAthletes == {1, 2}

MainDom ==
    [lists |-> SeqsUpTo({Row(1, 4), Row(2, 6)}, MaxManagers),
     max_rows |-> MaxManagers,
     picks |-> {PicksFail, PicksMalformed,
                PicksOk(NoChip, <<Pick(1, 1, TRUE), Pick(2, 12, FALSE)>>),
                PicksOk("wildcard", <<Pick(2, 1, FALSE), Pick(3, 2, TRUE),
                                      Pick(2, 12, FALSE)>>)},
     transfers |-> {TransfersFail,
                    TransfersOk(<<Transfer(1, 2, 1), Transfer(1, 2, 1),
                                  Transfer(2, 3, 1), Transfer(2, 1, 2)>>)}]

MainConfigs == {[manager_count |-> n] : n \in {1, PageSize + 1}}

BuildIdle ==
    /\ team_mapping_file = NoFile
    /\ player_mapping_file = NoFile
    /\ build_log = <<>>

MatchIdle ==
    /\ query = NoQuery
    /\ candidates = <<>>
    /\ best_match = [fpl_id |-> NoId, score |-> 0, kept |-> FALSE]
    /\ first_match = Call(query, candidates, best_match, FALSE)
    /\ summary_args = NoSummaryArgs
    /\ summary_result = compute_summary(1, 0, <<>>, <<>>, EmptyCounter,
                                        EmptyCounter, <<>>)

Init == InitPass(MainConfigs, MainAthletes, MainDom) /\ BuildIdle /\ MatchIdle

Spec == Init /\ [][Next]_vars

(* Full squads: fifteen picks in slots 1..15, the captain in slot 1.      *)
(* Athletes 1..15 are in the local table, 16 is not.                      *)
FullSquad(first) ==
    [i \in 1..SquadSize |-> Pick(first + i - 1, i, i = 1)]

SquadAthletes == 1..SquadSize

SquadDom ==
    [lists |-> SeqsUpTo({Row(1, 4)}, MaxManagers),
     max_rows |-> MaxManagers,
     picks |-> {PicksFail, PicksMalformed,
                PicksOk(NoChip, FullSquad(1)),
                PicksOk("bboost", FullSquad(2))},
     transfers |-> {TransfersFail, TransfersOk(<<Transfer(1, 2, 1)>>)}]

InitSquad ==
    InitPass(MainConfigs, SquadAthletes, SquadDom) /\ BuildIdle /\ MatchIdle

(* One standings list of two managers or an empty page, one squad and    *)
(* one transfer history, with every kind of failure; one page or two.     *)
RunningDom ==
    [lists |-> {<<>>, <<Row(1, 4), Row(2, 6)>>},
     max_rows |-> MaxManagers,
     picks |-> {PicksFail, PicksMalformed,
                PicksOk(NoChip, <<Pick(1, 1, TRUE)>>)},
     transfers |-> {TransfersFail, TransfersOk(<<Transfer(1, 2, 1)>>)}]

InitRunning ==
    /\ InitPass({[manager_count |-> n] : n \in {MaxManagers, PageSize + 1}},
                MainAthletes, RunningDom)
    /\ BuildIdle
    /\ MatchIdle

SpecRunning == InitRunning /\ [][Next]_vars /\ WF_vars(PassStep)

SpecSquad == InitSquad /\ [][Next]_vars

(* A cohort of four: the standings hold managers 1..4, and a manager's    *)
(* picks are player 1 as captain in slot 1, player 1 in slot 1 with       *)
(* player 2 as captain, or player 1 in slot 11 with player 3 as captain.  *)
FourDom ==
    [lists |-> {<<Row(1, 4), Row(2, 6), Row(3, 5), Row(4, 5)>>},
     max_rows |-> 4,
     picks |-> {PicksOk(NoChip, <<Pick(1, 1, TRUE), Pick(2, 2, FALSE)>>),
                PicksOk(NoChip, <<Pick(1, 1, FALSE), Pick(2, 2, TRUE)>>),
                PicksOk(NoChip, <<Pick(1, 11, FALSE), Pick(3, 1, TRUE)>>)},
     transfers |-> {TransfersOk(<<>>)}]

InitFour ==
    /\ InitPass({[manager_count |-> 4]}, {1, 2, 3}, FourDom)
    /\ BuildIdle
    /\ MatchIdle

SpecFour == InitFour /\ [][Next]_vars

(* The builders and the matching engine, with no command running and no   *)
(* mapping file written yet.                                              *)
InitBuild ==
    /\ InitPass({[manager_count |-> 1]}, MainAthletes, MainDom)
    /\ BuildIdle
    /\ MatchIdle

SpecBuild == InitBuild /\ [][NextBuild]_vars

SpecMatch == InitBuild /\ [][NextMatch]_vars

SpecRematch == InitBuild /\ [][NextRematch]_vars

SpecReduce == InitBuild /\ [][NextReduce]_vars

----------------------------------------------------------------------------
(* Properties of the gameweek pass *)

SummaryOf(tables, g) == {s \in tables.summaries : s.game_week = g}

RaisesNow == pc # "idle" /\ pc' = "idle" /\ outcome'[game_week] = "raised"
ReturnsNow == pc = "return" /\ outcome'[game_week] = "done"

(* C1: a pass is all-or-nothing.  A step in which the pass raises leaves  *)
(* the committed tables as they were; the committed tables change only in *)
(* the step in which the pass returns, and then become exactly what the   *)
(* pass wrote in its transaction.                                         *)
C1_AllOrNothing ==
    [][ /\ RaisesNow => db' = db
        /\ ReturnsNow => db' = tx
        /\ db' # db => ReturnsNow ]_vars

(* A pass raised in a manager's processing after writing rows, and the    *)
(* summary committed earlier for that gameweek is still there.            *)
C1_Witness ==
    /\ aborted.valid
    /\ aborted.dirty
    /\ aborted.at = "picks"
    /\ SummaryOf(db, aborted.gw) # {}
    /\ srcOf[aborted.gw].valid

(* C3: a pass that consumed the same upstream responses as the pass that  *)
(* produced the gameweek's committed summary writes one summary row for   *)
(* the gameweek, equal to the committed one.                              *)
C3_RerunIdempotent ==
    (pc = "return" /\ srcOf[game_week].valid /\ srcOf[game_week].log = inlog)
        => /\ SummaryOf(tx, game_week) = SummaryOf(db, game_week)
           /\ Cardinality(SummaryOf(tx, game_week)) = 1

C3_Witness ==
    /\ pc = "return"
    /\ srcOf[game_week].valid
    /\ srcOf[game_week].log = inlog
    /\ all_picks # <<>>
    /\ all_transfers # <<>>
    /\ chip_usage # EmptyCounter

(* C9: range mode.  A pass starts only when every earlier gameweek of the *)
(* range has completed, the pass after a completed one is started with    *)
(* its completion, and after a pass that raised no later one is started.  *)
C9_RangeHaltsOnlyOnException ==
    \A g \in GWs :
        /\ outcome[g] # "none" =>
              /\ g \in cmd.start..cmd.end
              /\ \A h \in cmd.start..(g - 1) : outcome[h] = "done"
        /\ outcome[g] = "raised" =>
              \A h \in GWs : h > g => outcome[h] = "none"
        /\ (outcome[g] = "done" /\ g < cmd.end) => outcome[g + 1] # "none"

HasFailedFetch(log) ==
    \/ \E i \in 1..Len(log.picks) : log.picks[i].kind = "fail"
    \/ \E i \in 1..Len(log.transfers) : log.transfers[i].kind = "fail"

(* The range 1..2: the pass for 1 completed with a failed manager fetch   *)
(* in it, the pass for 2 ran next and raised on the standings.            *)
C9_Witness ==
    /\ cmd = [start |-> 1, end |-> 2]
    /\ outcome[1] = "done"
    /\ HasFailedFetch(srcOf[1].log)
    /\ outcome[2] = "raised"
    /\ aborted.at = "standings"

----------------------------------------------------------------------------
(* What the running pass fetched, read off the responses it consumed *)

FetchFailed(i) ==
    \/ inlog.picks[i].kind = "fail"
    \/ inlog.transfers[i].kind = "fail"

RECURSIVE PicksOfUnfailed(_)
PicksOfUnfailed(i) ==
    IF i > Len(inlog.picks) THEN <<>>
    ELSE (IF FetchFailed(i) THEN <<>>
          ELSE PickFacts(KnownPicks(inlog.picks[i].picks)))
         \o PicksOfUnfailed(i + 1)

RECURSIVE TransfersOfUnfailed(_)
TransfersOfUnfailed(i) ==
    IF i > Len(inlog.transfers) THEN <<>>
    ELSE (IF FetchFailed(i) THEN <<>>
          ELSE TransferFacts(KnownTransfers(inlog.transfers[i].items, game_week)))
         \o TransfersOfUnfailed(i + 1)

RECURSIVE ChipsOfUnfailed(_)
ChipsOfUnfailed(i) ==
    IF i > Len(inlog.picks) THEN <<>>
    ELSE (IF FetchFailed(i) \/ inlog.picks[i].active_chip = NoChip THEN <<>>
          ELSE <<inlog.picks[i].active_chip>>)
         \o ChipsOfUnfailed(i + 1)

CaptainsOf(facts) ==
    LET caps == SelectSeq(facts, LAMBDA f : f.is_captain)
    IN  [i \in 1..Len(caps) |-> caps[i].athlete_id]

(* C2, as stated: no pass raises because of one manager's response, and   *)
(* the summary a pass writes has the ownership, captaincy, chip and       *)
(* transfer counts of exactly the managers none of whose fetches failed.  *)
C2_ReflectsRemainingManagers ==
    /\ ~(aborted.valid /\ aborted.at = "picks")
    /\ pc = "return" =>
         LET exp == compute_summary(game_week, config.manager_count,
                        PicksOfUnfailed(1), TransfersOfUnfailed(1),
                        CounterIncAll(EmptyCounter, CaptainsOf(PicksOfUnfailed(1))),
                        CounterIncAll(EmptyCounter, ChipsOfUnfailed(1)),
                        points_list)
         IN  \A s \in SummaryOf(tx, game_week) :
               /\ s.template_team = exp.template_team
               /\ s.template_squad = exp.template_squad
               /\ s.most_captained = exp.most_captained
               /\ s.chip_usage = exp.chip_usage
               /\ s.most_transferred_in = exp.most_transferred_in
               /\ s.most_transferred_out = exp.most_transferred_out

PercentagesOk(list, manager_count) ==
    \A i \in 1..Len(list) :
        /\ 0 <= list[i].percentage
        /\ list[i].percentage <= 1000
        /\ list[i].percentage = RoundDiv(list[i].count * 1000, manager_count)

(* C4, as stated: in every committed summary every percentage is between  *)
(* 0 and 100 and equals round(count / manager_count * 100, 1).            *)
C4_PercentagesWithinBounds ==
    \A s \in db.summaries :
        /\ PercentagesOk(s.template_team, s.manager_count)
        /\ PercentagesOk(s.template_squad, s.manager_count)
        /\ PercentagesOk(s.most_captained, s.manager_count)

(* Counts over the picks responses of the running pass *)
ManagersWithPicks ==
    Cardinality({i \in 1..Len(inlog.picks) :
        inlog.picks[i].kind = "ok" /\ inlog.picks[i].picks # <<>>})

FetchedKnown ==
    SumSeq([i \in 1..Len(inlog.picks) |-> Len(KnownPicks(inlog.picks[i].picks))])

FetchedKnownStarting ==
    SumSeq([i \in 1..Len(inlog.picks) |->
        Len(SelectSeq(KnownPicks(inlog.picks[i].picks),
                      LAMBDA p : p.position <= 11))])

IsFullKnownSquad(picks) ==
    /\ Len(picks) = 15
    /\ \A j \in 1..Len(picks) : picks[j].element \in athletes
    /\ {picks[j].position : j \in 1..Len(picks)} = 1..15

AllSquadsFullAndKnown ==
    \A i \in 1..Len(inlog.picks) :
        (inlog.picks[i].kind = "ok" /\ inlog.picks[i].picks # <<>>)
            => IsFullKnownSquad(inlog.picks[i].picks)

(* C5, as stated: the starting-ownership counts sum to 11 times, and the  *)
(* squad-ownership counts to 15 times, the number of managers with at     *)
(* least one fetched pick.                                                *)
C5_SumsAreMultiples ==
    pc = "return" =>
        /\ CounterTotal(StartingOwnership(all_picks)) = 11 * ManagersWithPicks
        /\ CounterTotal(SquadOwnership(all_picks)) = 15 * ManagersWithPicks

(* C5, amended: the squad-ownership counts sum to the number of fetched   *)
(* picks whose player is in the local table, the starting-ownership       *)
(* counts to the number of those in slots 1..11; and these are 15 and 11  *)
(* times the number of managers with a fetched pick when every fetched    *)
(* squad is fifteen locally known players in slots 1..15.                 *)
C5_SumsCountKnownPicks ==
    pc \in {"reduce", "return"} =>
        /\ CounterTotal(SquadOwnership(all_picks)) = FetchedKnown
        /\ CounterTotal(StartingOwnership(all_picks)) = FetchedKnownStarting
        /\ AllSquadsFullAndKnown =>
             /\ CounterTotal(SquadOwnership(all_picks)) = 15 * ManagersWithPicks
             /\ CounterTotal(StartingOwnership(all_picks)) = 11 * ManagersWithPicks

C5_Witness ==
    /\ pc = "return"
    /\ AllSquadsFullAndKnown
    /\ ManagersWithPicks = 2
    /\ CounterTotal(StartingOwnership(all_picks)) = 22

----------------------------------------------------------------------------
(* Properties of the identity-mapping builders *)

UniqueIds(rows) ==
    \A i, j \in DOMAIN rows :
        rows[i].sofasport_id = rows[j].sofasport_id => i = j

(* The last two runs are a team build and then a player build, and both   *)
(* completed (each saved its mapping).                                    *)
TeamThenPlayerCompleted ==
    /\ Len(build_log) >= 2
    /\ LET player == build_log[Len(build_log)]
           team == build_log[Len(build_log) - 1]
       IN /\ team.builder = "team" /\ ~team.raised
          /\ player.builder = "player" /\ ~player.raised

(* C6: after a completed run of the team builder followed by a completed  *)
(* run of the player builder, no analytics team id occurs in two rows of  *)
(* the team mapping, no analytics player id occurs in two rows of the     *)
(* player mapping, every team row's fpl_id is the id of a row of the      *)
(* league's Team table, and every player row's sofasport_team_id is the   *)
(* key of a row of the team mapping.                                      *)
C6_MappingsWellFormed ==
    TeamThenPlayerCompleted =>
        /\ UniqueIds(team_mapping_file.rows)
        /\ UniqueIds(player_mapping_file.rows)
        /\ \A i \in DOMAIN team_mapping_file.rows :
               \E k \in DOMAIN Teams :
                   Teams[k].id = team_mapping_file.rows[i].fpl_id
        /\ \A i \in DOMAIN player_mapping_file.rows :
               \E j \in DOMAIN team_mapping_file.rows :
                   team_mapping_file.rows[j].sofasport_id =
                       player_mapping_file.rows[i].sofasport_team_id

(* Both builds completed, the statistics response named one team id       *)
(* twice, and both mappings hold rows.                                    *)
C6_Witness ==
    /\ TeamThenPlayerCompleted
    /\ LET teams == build_log[Len(build_log) - 1].input.teams
       IN \E i, j \in DOMAIN teams : i # j /\ teams[i].id = teams[j].id
    /\ Len(team_mapping_file.rows) >= 1
    /\ Len(player_mapping_file.rows) >= 1

FileLeft(run) == IF run.builder = "team" THEN run.teams ELSE run.players

(* Runs i < j of the same builder with no run of that builder between.    *)
Successive(i, j) ==
    /\ i < j
    /\ build_log[i].builder = build_log[j].builder
    /\ \A k \in DOMAIN build_log :
           i < k /\ k < j => build_log[k].builder # build_log[i].builder

(* C7: when a builder is run twice in succession on the same input (the   *)
(* same analytics responses and, for the player builder, the same team    *)
(* mapping; the league tables do not change), the mapping file after the  *)
(* second run equals the file after the first, and has no two rows for    *)
(* one analytics id.                                                      *)
C7_BuilderIdempotent ==
    \A i, j \in DOMAIN build_log :
        Successive(i, j) /\ build_log[i].input = build_log[j].input =>
            /\ FileLeft(build_log[j]) = FileLeft(build_log[i])
            /\ UniqueIds(FileLeft(build_log[j]).rows)

(* The player builder completed twice in succession on one input and      *)
(* saved a mapping with rows, after a team build that did the same.       *)
C7_Witness ==
    /\ Len(build_log) = 3
    /\ build_log[1].builder = "team"
    /\ Len(build_log[1].teams.rows) >= 1
    /\ Successive(2, 3)
    /\ build_log[2].builder = "player"
    /\ build_log[2].input = build_log[3].input
    /\ ~build_log[2].raised /\ ~build_log[3].raised
    /\ Len(player_mapping_file.rows) >= 1

----------------------------------------------------------------------------
(* Properties of the matching engine *)

CandidateScore(i) ==
    IF query.kind = "team"
    THEN TeamScore(query.name, candidates[i].name)
    ELSE PlayerScore(query, candidates[i])

(* The first candidate, in iteration order, whose score is the maximum.   *)
IsFirstBest(i) ==
    /\ \A j \in DOMAIN candidates : CandidateScore(j) <= CandidateScore(i)
    /\ \A j \in DOMAIN candidates :
           j < i => CandidateScore(j) < CandidateScore(i)

(* C8: for every query and candidate list, when some candidate scores     *)
(* above zero the engine returns the first candidate of maximal score     *)
(* with that score, otherwise it returns none with score 0; and the       *)
(* builder keeps the match exactly when some candidate's score reaches    *)
(* the threshold, 80 for teams and 75 for players.                        *)
C8_MatchSelection ==
    query.kind # "none" =>
        /\ \A i \in DOMAIN candidates :
               IsFirstBest(i) /\ CandidateScore(i) > 0 =>
                   /\ best_match.fpl_id = candidates[i].id
                   /\ best_match.score = CandidateScore(i)
        /\ (\A i \in DOMAIN candidates : CandidateScore(i) = 0) =>
               best_match.fpl_id = NoId /\ best_match.score = 0
        /\ best_match.kept <=>
               \E i \in DOMAIN candidates :
                   CandidateScore(i) >=
                       (IF query.kind = "team" THEN 80 ELSE 75)

(* Two candidates share the maximal score, which reaches the threshold;   *)
(* the earlier one was returned and is kept.                              *)
C8_Witness ==
    /\ query.kind = "player"
    /\ \E i, j \in DOMAIN candidates :
           /\ i < j
           /\ IsFirstBest(i)
           /\ CandidateScore(j) = CandidateScore(i)
           /\ best_match.fpl_id = candidates[i].id
    /\ best_match.kept

----------------------------------------------------------------------------
(* Properties of fetch_top_managers *)

RECURSIVE Flatten(_)
Flatten(ss) == IF ss = <<>> THEN <<>> ELSE Head(ss) \o Flatten(Tail(ss))

PagesInOrder ==
    fetched.pages =
        [i \in 1..((config.manager_count + 49) \div 50) |-> i]

(* C11: when fetch_top_managers returns it has requested the             *)
(* pages 1..ceil(N/50) in increasing order and no others, and it returns  *)
(* exactly N entries, the first N of the concatenation of the results.    *)
C11_ReturnsExactlyN ==
    fetched.returned =>
        /\ PagesInOrder
        /\ Len(managers_data) = config.manager_count
        /\ managers_data =
               SubSeq(Flatten(fetched.results), 1, config.manager_count)

(* What the function does guarantee: it has requested the pages          *)
(* 1..ceil(N/50) in increasing order and no others, and it returns the    *)
(* first min(N, L) entries of the concatenation of the results in page    *)
(* order, L being the length of that concatenation.                       *)
ReturnsFirstAtMostN ==
    fetched.returned =>
        LET all == Flatten(fetched.results)
            n == IF config.manager_count < Len(all)
                 THEN config.manager_count ELSE Len(all)
        IN /\ PagesInOrder
           /\ Len(managers_data) = n
           /\ \A i \in 1..n : managers_data[i] = all[i]

(* The pages held more than N entries and N of them were returned.        *)
TruncationHappened ==
    /\ fetched.returned
    /\ Len(Flatten(fetched.results)) > config.manager_count
    /\ Len(managers_data) = config.manager_count

(* C12: a failed request for a standings page does not make the pass      *)
(* raise: no pass is ended by an exception out of the standings fetch.    *)
C12_PageFailureRecovered ==
    ~(aborted.valid /\ aborted.at = "standings")

----------------------------------------------------------------------------
(* Unknown player references *)

ListedIds(list) == {list[i].athlete_id : i \in 1..Len(list)}

(* C13: no pick row and no transfer row names a player missing from the   *)
(* local table, and no list of a summary does; and a pass that is about   *)
(* to commit has written the row of every fetched pick of a known player  *)
(* and of every fetched transfer of the gameweek between known players,   *)
(* those that follow an unknown reference in the response included.       *)
C13_UnknownReferencesSkipped ==
    /\ \A p \in tx.picks : p.athlete \in athletes
    /\ \A t \in BagToSet(tx.transfers) :
           t.element_in \in athletes /\ t.element_out \in athletes
    /\ \A s \in tx.summaries :
           /\ ListedIds(s.template_team) \subseteq athletes
           /\ ListedIds(s.template_squad) \subseteq athletes
           /\ ListedIds(s.most_captained) \subseteq athletes
           /\ ListedIds(s.most_transferred_in) \subseteq athletes
           /\ ListedIds(s.most_transferred_out) \subseteq athletes
    /\ pc = "return" =>
         \A i \in 1..Len(inlog.managers) :
           /\ \A j \in 1..Len(inlog.picks[i].picks) :
                LET pick == inlog.picks[i].picks[j]
                IN pick.element \in athletes =>
                     \E p \in tx.picks :
                        /\ p.entry = inlog.managers[i].entry
                        /\ p.game_week = game_week
                        /\ p.athlete = pick.element
           /\ \A j \in 1..Len(inlog.transfers[i].items) :
                LET t == inlog.transfers[i].items[j]
                IN (/\ t.event = game_week
                    /\ t.element_in \in athletes
                    /\ t.element_out \in athletes) =>
                     \E r \in BagToSet(tx.transfers) :
                        /\ r.entry = inlog.managers[i].entry
                        /\ r.game_week = game_week
                        /\ r.element_in = t.element_in
                        /\ r.element_out = t.element_out

(* A pass about to commit fetched, for one manager, an unknown captain    *)
(* followed by a known pick, and an unknown transfer of the gameweek      *)
(* followed by a known one.                                               *)
C13_Witness ==
    /\ pc = "return"
    /\ \E i \in 1..Len(inlog.managers) :
         /\ \E j, k \in 1..Len(inlog.picks[i].picks) :
              /\ j < k
              /\ inlog.picks[i].picks[j].element \notin athletes
              /\ inlog.picks[i].picks[j].is_captain
              /\ inlog.picks[i].picks[k].element \in athletes
         /\ \E j, k \in 1..Len(inlog.transfers[i].items) :
              /\ j < k
              /\ inlog.transfers[i].items[j].event = game_week
              /\ inlog.transfers[i].items[j].element_in \notin athletes
              /\ inlog.transfers[i].items[k].event = game_week
              /\ inlog.transfers[i].items[k].element_in \in athletes
              /\ inlog.transfers[i].items[k].element_out \in athletes

----------------------------------------------------------------------------
(* Transfer rows *)

(* C14: the transfers table never holds two rows for one (manager,        *)
(* gameweek, player_in, player_out), whatever passes ran and however      *)
(* often the upstream history repeats a transfer; and a step of a pass    *)
(* that goes on (no exception) leaves every row that was there, once.     *)
C14_OneRowPerTransfer ==
    /\ [](\A r \in BagToSet(tx.transfers) : CopiesIn(r, tx.transfers) = 1)
    /\ [][(pc # "idle" /\ pc' # "idle") =>
            \A r \in BagToSet(tx.transfers) : CopiesIn(r, tx'.transfers) = 1]_vars

(* A re-run of a gameweek met, twice in one response, a transfer whose    *)
(* row the earlier pass had committed.                                    *)
C14_Witness ==
    /\ pc = "return"
    /\ srcOf[game_week].valid
    /\ \E i \in 1..Len(inlog.managers) :
         \E j, k \in 1..Len(inlog.transfers[i].items) :
            LET t == inlog.transfers[i].items[j]
                row == [entry |-> inlog.managers[i].entry,
                        game_week |-> game_week,
                        element_in |-> t.element_in,
                        element_out |-> t.element_out]
            IN /\ j < k
               /\ inlog.transfers[i].items[k] = t
               /\ t.event = game_week
               /\ BagIn(row, db.transfers)
               /\ BagIn(row, tx.transfers)

----------------------------------------------------------------------------
(* Rows of a manager whose fetch failed.  The committed tables do not     *)
(* change while a pass runs, so what the pass wrote is what tx holds and  *)
(* db does not.                                                           *)

EntriesOfPass == {inlog.managers[i].entry : i \in 1..Len(inlog.managers)}

PicksFetchFailed(e) ==
    \A i \in 1..Len(inlog.managers) :
        inlog.managers[i].entry = e => inlog.picks[i].kind = "fail"

TransfersFetchFailed(e) ==
    \A i \in 1..Len(inlog.managers) :
        inlog.managers[i].entry = e => inlog.transfers[i].kind = "fail"

ManagerRows(tables, e) ==
    {m \in tables.managers : m.entry = e /\ m.game_week = game_week}

PickRows(tables, e) ==
    {p \in tables.picks : p.entry = e /\ p.game_week = game_week}

TransferRows(tables, e) ==
    {t \in BagToSet(tables.transfers) : t.entry = e /\ t.game_week = game_week}

(* C15: when a pass is about to commit, a manager whose fetches failed    *)
(* has no manager row, pick row or transfer row written by the pass.      *)
C15_FailedManagerHasNoRows ==
    pc = "return" =>
        \A e \in EntriesOfPass :
            (PicksFetchFailed(e) /\ TransfersFetchFailed(e)) =>
                /\ ManagerRows(tx, e) \subseteq ManagerRows(db, e)
                /\ PickRows(tx, e) \subseteq PickRows(db, e)
                /\ TransferRows(tx, e) \subseteq TransferRows(db, e)

(* What the pass does: it writes the manager row of every manager of the  *)
(* standings, before any fetch; a manager whose picks fetch failed gets   *)
(* no pick row and no chip from the pass, a manager whose transfers fetch *)
(* failed gets no transfer row from it; and the pass still reaches its    *)
(* commit with the rows of the other managers' known picks written.       *)
FailedFetchWritesOnlyManagerRow ==
    pc = "return" =>
        \A e \in EntriesOfPass :
            /\ ManagerRows(tx, e) # {}
            /\ PicksFetchFailed(e) =>
                 /\ PickRows(tx, e) = PickRows(db, e)
                 /\ \A m \in ManagerRows(tx, e) :
                      IF ManagerRows(db, e) = {}
                      THEN m.active_chip = NoChip
                      ELSE \E old \in ManagerRows(db, e) :
                              m.active_chip = old.active_chip
            /\ TransfersFetchFailed(e) =>
                 TransferRows(tx, e) = TransferRows(db, e)
            /\ \A i \in 1..Len(inlog.managers) :
                 inlog.managers[i].entry = e =>
                   \A j \in 1..Len(inlog.picks[i].picks) :
                      inlog.picks[i].picks[j].element \in athletes =>
                        \E p \in PickRows(tx, e) :
                           p.athlete = inlog.picks[i].picks[j].element

(* The first pass of a gameweek, about to commit: both fetches of one     *)
(* manager failed, and another manager's picks were written.              *)
FailedFetchCommitted ==
    /\ pc = "return"
    /\ db.managers = {}
    /\ \E e, f \in EntriesOfPass :
         /\ e # f
         /\ PicksFetchFailed(e) /\ TransfersFetchFailed(e)
         /\ PickRows(tx, e) = {}
         /\ ManagerRows(tx, e) # {}
         /\ PickRows(tx, f) # {}

----------------------------------------------------------------------------
(* The scenario of four managers *)

Starts(resp, x) ==
    \E j \in 1..Len(resp.picks) :
        resp.picks[j].element = x /\ resp.picks[j].position \in 1..11

Captains(resp, x) ==
    \E j \in 1..Len(resp.picks) :
        resp.picks[j].element = x /\ resp.picks[j].is_captain

CaptainedBy(x) == {i \in 1..Len(inlog.picks) : Captains(inlog.picks[i], x)}

(* A pass for a cohort of four is about to commit: all four managers      *)
(* start x and exactly two of them captain x.                             *)
FourStartTwoCaptain(x) ==
    /\ pc = "return"
    /\ config.manager_count = 4
    /\ Len(inlog.managers) = 4
    /\ \A i \in 1..4 : inlog.picks[i].kind = "ok" /\ Starts(inlog.picks[i], x)
    /\ Cardinality(CaptainedBy(x)) = 2

HasEntry(list, x, count, percentage) ==
    \E k \in 1..Len(list) :
        list[k] = [athlete_id |-> x, count |-> count,
                   percentage |-> percentage]

(* C16: in the scenario, whatever the processing order, the summary has   *)
(* most_captained[0] = {x, 2, 50.0} and template_team holds x with count  *)
(* 4 and percentage 100.0.                                                *)
C16_ScenarioOfFour ==
    \A x \in athletes :
        FourStartTwoCaptain(x) =>
            \A s \in SummaryOf(tx, game_week) :
                /\ s.most_captained # <<>>
                /\ s.most_captained[1] =
                       [athlete_id |-> x, count |-> 2, percentage |-> 500]
                /\ HasEntry(s.template_team, x, 4, 1000)

FirstIn(set) == CHOOSE i \in set : \A j \in set : i <= j

(* C16, amended: in the scenario the summary's most_captained holds       *)
(* {x, 2, 50.0} and its template_team holds x with count 4 and 100.0;     *)
(* the entry of x is most_captained[0] exactly when no other player is    *)
(* captained by two of the four, or x was the first of the two to be      *)
(* captained in processing order.                                         *)
C16_ScenarioOfFourFirstSeen ==
    \A x \in athletes :
        FourStartTwoCaptain(x) =>
            \A s \in SummaryOf(tx, game_week) :
                /\ HasEntry(s.most_captained, x, 2, 500)
                /\ HasEntry(s.template_team, x, 4, 1000)
                /\ s.most_captained[1].athlete_id = x <=>
                     \A y \in athletes \ {x} :
                        Cardinality(CaptainedBy(y)) = 2 =>
                            FirstIn(CaptainedBy(x)) < FirstIn(CaptainedBy(y))

(* The scenario with the other two managers captaining one player, the    *)
(* first manager processed being one of them; and x is listed second.     *)
C16_Witness ==
    \E x \in athletes :
        /\ FourStartTwoCaptain(x)
        /\ \E y \in athletes \ {x} :
             /\ Cardinality(CaptainedBy(y)) = 2
             /\ 1 \in CaptainedBy(y)
        /\ \E s \in SummaryOf(tx, game_week) :
             s.most_captained[2].athlete_id = x

----------------------------------------------------------------------------
(* Team boundaries in the player builder *)

RunsOf(builder) ==
    {i \in DOMAIN build_log :
        build_log[i].builder = builder /\ ~build_log[i].raised}

ReachesTeamThreshold(name) ==
    \E k \in DOMAIN Teams : TeamScore(name, Teams[k].name) >= 80

LeagueTeamOf(fpl_id) ==
    {Athletes[k].team_id : k \in {n \in DOMAIN Athletes : Athletes[n].id = fpl_id}}

(* C17: in the mapping saved by a player build, every row maps a player   *)
(* of the squad fetched for an analytics team T of the team mapping to a  *)
(* league player of the league team that mapping gives for T; and a team  *)
(* build saves no row for an analytics team none of whose names reaches   *)
(* 80, so that no player row of a later player build names that team.     *)
C17_NoMatchAcrossTeams ==
    /\ \A r \in RunsOf("player") :
         LET run == build_log[r]
             team_mapping == run.input.team_mapping.rows
         IN \A i \in DOMAIN run.players.rows :
              LET row == run.players.rows[i]
              IN \E t \in DOMAIN team_mapping :
                   /\ team_mapping[t].sofasport_id = row.sofasport_team_id
                   /\ team_mapping[t].fpl_id = row.fpl_team_id
                   /\ LeagueTeamOf(row.fpl_id) = {team_mapping[t].fpl_id}
                   /\ \E j \in DOMAIN run.input.squads[t].players :
                        str(run.input.squads[t].players[j].id) = row.sofasport_id
    /\ \A r \in RunsOf("team") :
         LET run == build_log[r]
         IN \A j \in DOMAIN run.input.teams :
              LET id == run.input.teams[j].id
              IN (\A k \in DOMAIN run.input.teams :
                     run.input.teams[k].id = id =>
                        ~ReachesTeamThreshold(run.input.teams[k].name)) =>
                   /\ \A i \in DOMAIN run.teams.rows :
                        run.teams.rows[i].sofasport_id # str(id)
                   /\ \A q \in RunsOf("player") :
                        (q > r /\ build_log[q].input.team_mapping = run.teams) =>
                           \A i \in DOMAIN build_log[q].players.rows :
                              build_log[q].players.rows[i].sofasport_team_id # str(id)

(* A team build left a team without a row; in the last player build a     *)
(* squad fetched for a team mapped to league team 1 held a player whose   *)
(* name matches a player of league team 2 only, and got no row, while     *)
(* another squad's player was saved.                                      *)
C17_Witness ==
    /\ \E r \in RunsOf("team") :
         \E j \in DOMAIN build_log[r].input.teams :
            /\ ~ReachesTeamThreshold(build_log[r].input.teams[j].name)
            /\ build_log[r].teams.rows = <<>>
    /\ Len(build_log) \in RunsOf("player")
    /\ LET run == build_log[Len(build_log)]
       IN /\ \E t \in DOMAIN run.input.team_mapping.rows :
               /\ run.input.team_mapping.rows[t].fpl_id = 1
               /\ \E j \in DOMAIN run.input.squads[t].players :
                    LET p == run.input.squads[t].players[j]
                    IN /\ p.name = "Erling Braut Haaland"
                       /\ \A i \in DOMAIN run.players.rows :
                            run.players.rows[i].sofasport_id # str(p.id)
          /\ run.players.rows # <<>>

----------------------------------------------------------------------------
(* Pick rows after a re-run *)

FetchesOf(e) ==
    {i \in 1..Len(inlog.managers) :
        inlog.managers[i].entry = e /\ inlog.picks[i].kind = "ok"}

FetchedSquad(e) ==
    UNION {{inlog.picks[i].picks[j].element : j \in 1..Len(inlog.picks[i].picks)}
              \cap athletes : i \in FetchesOf(e)}

(* C18: when a pass is about to commit, the pick rows of a manager whose  *)
(* picks were fetched are exactly the players of the squad fetched in     *)
(* this pass, one row per player, with a slot in 1..15.                   *)
C18_PicksReplacedOnRerun ==
    pc = "return" =>
        \A e \in EntriesOfPass :
            FetchesOf(e) # {} =>
                /\ {p.athlete : p \in PickRows(tx, e)} = FetchedSquad(e)
                /\ \A p, q \in PickRows(tx, e) : p.athlete = q.athlete => p = q
                /\ \A p \in PickRows(tx, e) : p.position \in 1..SquadSize

(* What the pass does: it upserts a row per fetched known player and      *)
(* deletes none, so the rows are the fetched squad and the rows that the  *)
(* committed tables held before the pass.                                 *)
PicksUpsertedNeverDeleted ==
    pc = "return" =>
        \A e \in EntriesOfPass :
            /\ FetchedSquad(e) \subseteq {p.athlete : p \in PickRows(tx, e)}
            /\ {p.athlete : p \in PickRows(tx, e)} \subseteq
                  FetchedSquad(e) \cup {p.athlete : p \in PickRows(db, e)}
            /\ \A p \in PickRows(db, e) :
                  p.athlete \notin FetchedSquad(e) => p \in PickRows(tx, e)
            /\ \A p, q \in PickRows(tx, e) : p.athlete = q.athlete => p = q

(* A re-run about to commit: a player of the committed rows is not in the *)
(* squad fetched now and keeps its row.                                   *)
StalePickKept ==
    /\ pc = "return"
    /\ \E e \in EntriesOfPass :
         /\ FetchesOf(e) # {}
         /\ \E p \in PickRows(db, e) :
              /\ p.athlete \notin FetchedSquad(e)
              /\ p \in PickRows(tx, e)

----------------------------------------------------------------------------
(* The summary and the rows it is said to reduce *)

RowsIn(x) ==
    LET rows == {r \in BagToSet(tx.transfers) :
                    r.game_week = game_week /\ r.element_in = x}
    IN  BagCardinality([r \in rows |-> CopiesIn(r, tx.transfers)])

RowsOut(x) ==
    LET rows == {r \in BagToSet(tx.transfers) :
                    r.game_week = game_week /\ r.element_out = x}
    IN  BagCardinality([r \in rows |-> CopiesIn(r, tx.transfers)])

CountIn(list, x) ==
    SumSeq([i \in 1..Len(list) |->
               IF list[i].athlete_id = x THEN list[i].count ELSE 0])

PlayersNamed == athletes \cup {3}

(* C19: when a pass is about to commit, for every player the summary's    *)
(* squad-ownership count is the number of pick rows of the gameweek for   *)
(* the player, and its transfer-in and transfer-out counts are the        *)
(* numbers of transfer rows of the gameweek naming it.                    *)
C19_SummaryReducesRows ==
    pc = "return" =>
        \A s \in SummaryOf(tx, game_week) : \A x \in PlayersNamed :
            /\ CountIn(s.template_squad, x) =
                 Cardinality({p \in tx.picks :
                                 p.game_week = game_week /\ p.athlete = x})
            /\ CountIn(s.most_transferred_in, x) = RowsIn(x)
            /\ CountIn(s.most_transferred_out, x) = RowsOut(x)

(* What the pass does: the summary is the reduction of the lists gathered *)
(* in memory from this pass's responses.                                  *)
SummaryReducesFetchedLists ==
    pc = "return" =>
        SummaryOf(tx, game_week) =
            {compute_summary(game_week, config.manager_count, all_picks,
                             all_transfers, captain_picks, chip_usage,
                             points_list)}

(* A transfer history repeating one pair for one manager: two counted,    *)
(* one row.                                                               *)
RepeatedTransferCountedTwice ==
    /\ pc = "return"
    /\ \E s \in SummaryOf(tx, game_week) : \E x \in athletes :
         /\ CountIn(s.most_transferred_in, x) = 2
         /\ BagCardinality(tx.transfers) = 1

----------------------------------------------------------------------------
(* Chip usage and the chip of the manager rows *)

ChipValues == {"wildcard"}

(* C20: when a pass is about to commit, for every chip the summary's chip *)
(* usage is the number of manager rows of the gameweek holding that chip. *)
C20_ChipUsageCountsRows ==
    pc = "return" =>
        \A s \in SummaryOf(tx, game_week) : \A c \in ChipValues :
            CounterGet(s.chip_usage, c) =
                Cardinality({m \in tx.managers :
                                m.game_week = game_week /\ m.active_chip = c})

(* What the pass does: chip usage counts the picks responses of this pass *)
(* that name a chip.                                                      *)
ChipUsageCountsResponses ==
    pc = "return" =>
        \A s \in SummaryOf(tx, game_week) : \A c \in ChipValues :
            CounterGet(s.chip_usage, c) =
                Cardinality({i \in 1..Len(inlog.picks) :
                                /\ inlog.picks[i].kind = "ok"
                                /\ inlog.picks[i].active_chip = c})

(* A re-run whose picks response names no chip, or fails, for a manager   *)
(* whose committed row holds one: the row keeps the chip.                 *)
ChipKeptAfterChiplessRerun ==
    /\ pc = "return"
    /\ \E e \in EntriesOfPass :
         /\ \A i \in 1..Len(inlog.managers) :
              inlog.managers[i].entry = e => inlog.picks[i].active_chip = NoChip
         /\ \E m \in ManagerRows(tx, e) : m.active_chip \in ChipValues

----------------------------------------------------------------------------
(* The delay between remote calls *)

AboutToCall == pc \in {"standings", "picks", "transfers"}

(* C21: whenever a pass is about to make a remote call and has made one   *)
(* before, the fixed delay has run since that earlier call, whether it    *)
(* succeeded or failed.                                                   *)
C21_DelayBetweenCalls ==
    (AboutToCall /\ last_call.made) => last_call.slept

(* What the pass does: the delay runs between two standings pages, and    *)
(* after a picks or transfers call that returned; it does not run after   *)
(* the page that fills the list, nor after a call that raised.            *)
DelayAfterReturnedCalls ==
    /\ (pc = "standings" /\ last_call.made) => last_call.slept
    /\ (pc = "transfers") =>
          (last_call.slept <=> inlog.picks[Len(inlog.picks)].kind # "fail")
    /\ (pc = "picks" /\ idx > 1) =>
          (last_call.slept <=> inlog.transfers[Len(inlog.transfers)].kind # "fail")
    /\ (pc = "picks" /\ idx = 1) =>
          (last_call.slept <=> Len(Flatten(fetched.results)) < config.manager_count)

(* The picks call of the first manager follows the last standings page    *)
(* with no delay.                                                         *)
NoDelayBeforeFirstPicks ==
    pc = "picks" /\ idx = 1 /\ last_call.made /\ ~last_call.slept

----------------------------------------------------------------------------
(* Points statistics *)

PointsCountingFailuresAsZero ==
    [i \in 1..Len(inlog.managers) |->
        IF inlog.picks[i].kind = "fail" THEN 0
        ELSE inlog.managers[i].event_total]

PointsOfStandings ==
    [i \in 1..Len(inlog.managers) |-> inlog.managers[i].event_total]

PointsStatistics(s, points) ==
    /\ s.average_points = RoundDiv(100 * SumSeq(points), Len(points))
    /\ s.highest_points = <<MaxOfSeq(points)>>
    /\ s.lowest_points = <<MinOfSeq(points)>>
    /\ 100 * s.lowest_points[1] <= s.average_points
    /\ s.average_points <= 100 * s.highest_points[1]

(* C22: when a pass that processed a manager is about to commit, the      *)
(* summary's average is the mean of the managers' gameweek points with 0  *)
(* for a manager whose picks fetch failed, highest and lowest are the max *)
(* and min of that list, and lowest <= average <= highest.                *)
C22_FailedManagerCountsZero ==
    (pc = "return" /\ inlog.managers # <<>>) =>
        \A s \in SummaryOf(tx, game_week) :
            PointsStatistics(s, PointsCountingFailuresAsZero)

(* What the pass does: a manager's points are the standings entry's       *)
(* event_total, appended before the picks fetch, failed or not.           *)
PointsAreStandingsTotals ==
    (pc = "return" /\ inlog.managers # <<>>) =>
        \A s \in SummaryOf(tx, game_week) :
            PointsStatistics(s, PointsOfStandings)

(* A manager with points whose picks fetch failed is in a summary about   *)
(* to commit.                                                             *)
FailedManagerWithPoints ==
    /\ pc = "return"
    /\ \E i \in 1..Len(inlog.managers) :
         inlog.picks[i].kind = "fail" /\ inlog.managers[i].event_total > 0
    /\ \E s \in SummaryOf(tx, game_week) : s.average_points > 0

----------------------------------------------------------------------------
(* The order of a pass *)

InManagerLoop == pc \in {"picks", "transfers"}

(* No manager call before the standings fetch has finished, and the       *)
(* managers are taken in the order of the standings, picks then transfers.*)
CallsInOrder ==
    /\ pc = "standings" =>
          inlog.picks = <<>> /\ inlog.transfers = <<>> /\ inlog.managers = <<>>
    /\ pc \in {"picks", "transfers", "reduce", "return"} =>
          inlog.managers = managers_data
    /\ pc = "picks" =>
          Len(inlog.picks) = idx - 1 /\ Len(inlog.transfers) = idx - 1
    /\ pc = "transfers" =>
          Len(inlog.picks) = idx /\ Len(inlog.transfers) = idx - 1
    /\ InManagerLoop => idx \in 1..Len(managers_data)
    /\ pc \in {"reduce", "return"} =>
          /\ Len(inlog.picks) = Len(managers_data)
          /\ Len(inlog.transfers) = Len(managers_data)

(* The steps of a pass: standings pages, then per manager the picks step  *)
(* and the transfers step (also after a failed picks fetch), the rows     *)
(* written in a manager's steps being that manager's; then the summary,   *)
(* written in one step after the last manager; then the commit.           *)
StepsInOrder ==
    /\ (pc = "standings" /\ pc' # "idle") =>
          pc' \in {"standings", "picks", "reduce"}
    /\ (pc = "picks" /\ pc' # "idle") =>
          /\ pc' = "transfers" /\ idx' = idx
          /\ \A m \in tx'.managers \ tx.managers :
                m.entry = managers_data[idx].entry
          /\ \A p \in tx'.picks \ tx.picks :
                p.entry = managers_data[idx].entry
          /\ tx'.transfers = tx.transfers
    /\ pc = "transfers" =>
          /\ pc' \in {"picks", "reduce"}
          /\ idx' = idx + 1
          /\ (pc' = "reduce") <=> (idx = Len(managers_data))
          /\ \A t \in BagToSet(tx'.transfers) :
                CopiesIn(t, tx'.transfers) # CopiesIn(t, tx.transfers) =>
                   t.entry = managers_data[idx].entry
          /\ tx'.managers = tx.managers /\ tx'.picks = tx.picks
    /\ (pc # "reduce" /\ pc' # "idle" /\ pc' # "standings") =>
          tx'.summaries = tx.summaries
    /\ pc = "reduce" =>
          /\ pc' = "return"
          /\ SummaryOf(tx', game_week) # {}
          /\ tx'.managers = tx.managers /\ tx'.picks = tx.picks
          /\ tx'.transfers = tx.transfers
    /\ pc = "return" => pc' \in {"idle", "standings"}

----------------------------------------------------------------------------
(* The top lists of the summary *)

Occurrences(seq, x) == Cardinality({i \in 1..Len(seq) : seq[i] = x})

FirstOccurrence(seq, x) ==
    CHOOSE i \in 1..Len(seq) :
        seq[i] = x /\ \A j \in 1..(i - 1) : seq[j] # x

Counted(seq) == {seq[i] : i \in 1..Len(seq)}

(* `list` holds the min(size, distinct) most counted of `seq`, by count   *)
(* descending, ties in first-counted order, every count the true one, and *)
(* nobody left out is counted more than somebody in the list.             *)
IsTopList(list, seq, size) ==
    /\ Len(list) = Min(size, Cardinality(Counted(seq)))
    /\ \A i \in 1..Len(list) :
          /\ list[i].athlete_id \in Counted(seq)
          /\ list[i].count = Occurrences(seq, list[i].athlete_id)
    /\ \A i, j \in 1..Len(list) :
          i < j =>
            \/ list[i].count > list[j].count
            \/ /\ list[i].count = list[j].count
               /\ FirstOccurrence(seq, list[i].athlete_id) <
                     FirstOccurrence(seq, list[j].athlete_id)
    /\ \A x \in Counted(seq) :
          (\A i \in 1..Len(list) : list[i].athlete_id # x) =>
              \A i \in 1..Len(list) : Occurrences(seq, x) <= list[i].count

SquadIds == [i \in 1..Len(summary_args.all_picks) |->
                summary_args.all_picks[i].athlete_id]

StartedIds ==
    LET st == SelectSeq(summary_args.all_picks,
                        LAMBDA p : p.position \in 1..StartingSlots)
    IN  [i \in 1..Len(st) |-> st[i].athlete_id]

CaptainedIds ==
    LET cp == SelectSeq(summary_args.all_picks, LAMBDA p : p.is_captain)
    IN  [i \in 1..Len(cp) |-> cp[i].athlete_id]

InIds == [i \in 1..Len(summary_args.all_transfers) |->
             summary_args.all_transfers[i].element_in]

OutIds == [i \in 1..Len(summary_args.all_transfers) |->
              summary_args.all_transfers[i].element_out]

(* C24: template_team is the top 11 of the started players,               *)
(* template_squad the top 22 of the owned players, most_captained the top *)
(* 5 of the captains and most_transferred_in / _out the top 10, each by   *)
(* count descending with ties in first-counted order, and no player left  *)
(* out of a list has a higher count than a player in it.                  *)
C24_TopLists ==
    /\ IsTopList(summary_result.template_team, StartedIds, 11)
    /\ IsTopList(summary_result.template_squad, SquadIds, 22)
    /\ IsTopList(summary_result.most_captained, CaptainedIds, 5)
    /\ IsTopList(summary_result.most_transferred_in, InIds, 10)
    /\ IsTopList(summary_result.most_transferred_out, OutIds, 10)

(* More players than every list holds, and the two players counted twice  *)
(* are the last counted of the started players, so that they head the     *)
(* lists and the ties behind them are cut off.                            *)
C24_Witness ==
    /\ Cardinality(Counted(StartedIds)) > 11
    /\ Cardinality(Counted(SquadIds)) > 22
    /\ Len(summary_result.template_team) = 11
    /\ Len(summary_result.template_squad) = 22
    /\ Len(summary_result.most_captained) = 5
    /\ Len(summary_result.most_transferred_out) = 10
    /\ summary_result.template_team[1].athlete_id = 21
    /\ summary_result.template_team[2].athlete_id = 23
    /\ summary_result.template_team[2].count = 2
    /\ summary_result.template_team[3].athlete_id = 1

----------------------------------------------------------------------------
(* The score of a player candidate *)

BaseScore(i) == max_full_score(query.name, candidates[i])

CombinedScore(i) ==
    IF query.short_name = "" THEN BaseScore(i)
    ELSE Max(BaseScore(i),
             Max(ratio(Lower(query.short_name), Lower(candidates[i].second_name)),
                 ratio(Lower(query.short_name), Lower(candidates[i].web_name))))

CombinedPlusFive(i) ==
    IF BaseScore(i) >= 85 THEN CombinedScore(i) + 5 ELSE CombinedScore(i)

BoostedFullOrCombined(i) ==
    IF BaseScore(i) >= 85 THEN Max(CombinedScore(i), BaseScore(i) + 5)
    ELSE CombinedScore(i)

IsHighest(score, Score(_)) ==
    /\ \E i \in DOMAIN candidates : Score(i) = score
    /\ \A i \in DOMAIN candidates : Score(i) <= score

(* C25: the score returned for a player query is the highest final score  *)
(* of the candidates, the final score being the combined score plus 5     *)
(* when the full-name score is at least 85 and the combined score         *)
(* otherwise.                                                             *)
C25_CombinedPlusFive ==
    (query.kind = "player" /\ candidates # <<>>) =>
        IsHighest(best_match.score, CombinedPlusFive)

(* What the engine computes: with a full-name score of at least 85 the    *)
(* final score is the larger of the combined score and the full-name      *)
(* score plus 5.                                                          *)
FinalScoreIsBoostedFullOrCombined ==
    (query.kind = "player" /\ candidates # <<>>) =>
        IsHighest(best_match.score, BoostedFullOrCombined)

(* A candidate's short-name score is above its full-name score, which is  *)
(* at least 85.                                                           *)
ShortNameAboveBoostedFull ==
    /\ query.kind = "player"
    /\ \E i \in DOMAIN candidates :
         /\ BaseScore(i) >= 85
         /\ CombinedScore(i) > BaseScore(i)
         /\ best_match.fpl_id = candidates[i].id
         /\ best_match.score = BaseScore(i) + 5

----------------------------------------------------------------------------
(* The engine keeps no state *)

----------------------------------------------------------------------------
(* The scores and ids the builders persist *)

LastRunCompleted(builder) ==
    /\ build_log # <<>>
    /\ build_log[Len(build_log)].builder = builder
    /\ ~build_log[Len(build_log)].raised

ScoresWithin(rows, low, high) ==
    \A i \in DOMAIN rows :
        low <= rows[i].match_score /\ rows[i].match_score <= high

(* C27: every team row saved has 80 <= match_score <= 100 and every       *)
(* player row saved has 75 <= match_score <= 100.                         *)
C27_ScoresOnScale ==
    /\ LastRunCompleted("team") => ScoresWithin(team_mapping_file.rows, 80, 100)
    /\ LastRunCompleted("player") =>
          ScoresWithin(player_mapping_file.rows, 75, 100)

(* What the builders save: team scores within 80..100, player scores      *)
(* within 75..105 (the boost is added to a full-name score of up to 100). *)
ScoresUpToBoostedFull ==
    /\ LastRunCompleted("team") => ScoresWithin(team_mapping_file.rows, 80, 100)
    /\ LastRunCompleted("player") =>
          ScoresWithin(player_mapping_file.rows, 75, 105)

(* A player whose full name equals the league's is saved with score 105.  *)
ExactFullNameSavedAbove100 ==
    /\ LastRunCompleted("player")
    /\ \E i \in DOMAIN player_mapping_file.rows :
         /\ player_mapping_file.rows[i].sofasport_name =
               player_mapping_file.rows[i].fpl_full_name
         /\ player_mapping_file.rows[i].match_score = 105

OneToOne(rows) ==
    \A i, j \in DOMAIN rows : rows[i].fpl_id = rows[j].fpl_id => i = j

(* C28: after a completed build no two rows of the team mapping name one  *)
(* league team, and no two rows of the player mapping one league player.  *)
C28_MappingsOneToOne ==
    /\ LastRunCompleted("team") => OneToOne(team_mapping_file.rows)
    /\ LastRunCompleted("player") => OneToOne(player_mapping_file.rows)

(* Two analytics players, "Gabriel" and "Martinelli", are saved for one   *)
(* league player.                                                         *)
TwoPlayersOneLeaguePlayer ==
    /\ LastRunCompleted("player")
    /\ \E i, j \in DOMAIN player_mapping_file.rows :
         /\ i # j
         /\ player_mapping_file.rows[i].fpl_id = player_mapping_file.rows[j].fpl_id
         /\ player_mapping_file.rows[i].sofasport_name = "Gabriel"
         /\ player_mapping_file.rows[j].sofasport_name = "Martinelli"

----------------------------------------------------------------------------
(* Re-runs of the player builder *)

(* C29: when the player builder completes a re-run on the team mapping of *)
(* its previous run and the squad fetch of a mapped team fails, the rows  *)
(* the previous run left for that team's players are still in the file.   *)
C29_FailedSquadKeepsRows ==
    \A i, j \in DOMAIN build_log :
        (/\ Successive(i, j)
         /\ build_log[j].builder = "player"
         /\ ~build_log[j].raised
         /\ build_log[j].input.team_mapping = build_log[i].input.team_mapping) =>
            \A t \in DOMAIN build_log[j].input.squads :
                ~build_log[j].input.squads[t].ok =>
                    \A r \in DOMAIN build_log[i].players.rows :
                        build_log[i].players.rows[r].sofasport_team_id =
                            build_log[j].input.team_mapping.rows[t].sofasport_id
                        => \E q \in DOMAIN build_log[j].players.rows :
                              build_log[j].players.rows[q].sofasport_id =
                                 build_log[i].players.rows[r].sofasport_id

(* What the builder does: a completed run leaves exactly the rows it      *)
(* matched in that run, every one of a squad fetched in that run.         *)
CompletedRunLeavesOnlyItsRows ==
    \A j \in DOMAIN build_log :
        (build_log[j].builder = "player" /\ ~build_log[j].raised) =>
            \A q \in DOMAIN build_log[j].players.rows :
                \E t \in DOMAIN build_log[j].input.squads :
                    /\ build_log[j].input.squads[t].ok
                    /\ build_log[j].input.team_mapping.rows[t].sofasport_id =
                          build_log[j].players.rows[q].sofasport_team_id

(* A completed re-run in which one team's squad fetch failed dropped the  *)
(* rows the previous run had saved for that team.                         *)
RowsOfFailedSquadDropped ==
    \E i, j \in DOMAIN build_log :
        /\ Successive(i, j)
        /\ build_log[j].builder = "player"
        /\ ~build_log[i].raised /\ ~build_log[j].raised
        /\ build_log[j].input.team_mapping = build_log[i].input.team_mapping
        /\ \E t \in DOMAIN build_log[j].input.squads :
             /\ ~build_log[j].input.squads[t].ok
             /\ \E r \in DOMAIN build_log[i].players.rows :
                  build_log[i].players.rows[r].sofasport_team_id =
                     build_log[j].input.team_mapping.rows[t].sofasport_id
        /\ \A q \in DOMAIN build_log[j].players.rows :
             \A r \in DOMAIN build_log[i].players.rows :
                build_log[j].players.rows[q].sofasport_team_id #
                   build_log[i].players.rows[r].sofasport_team_id
                \/ build_log[j].players.rows[q] = build_log[i].players.rows[r]
        /\ Len(build_log[j].players.rows) < Len(build_log[i].players.rows)

PlayersProcessed(squads) ==
    SumSeq([t \in DOMAIN squads |->
               Len(get_sofasport_players(squads[t], "10"))])

(* C30: every run of the player builder on an existing team mapping       *)
(* completes and saves its mapping, also when it processes no player.     *)
C30_PlayerBuilderAlwaysCompletes ==
    \A j \in DOMAIN build_log :
        (build_log[j].builder = "player"
            /\ build_log[j].input.team_mapping.exists) =>
                /\ ~build_log[j].raised
                /\ build_log[j].players.exists

(* What the builder does: it raises exactly when the team mapping file is *)
(* missing or no player was processed, and then saves nothing.            *)
RaisesWhenNothingProcessed ==
    \A j \in DOMAIN build_log :
        build_log[j].builder = "player" =>
            /\ build_log[j].raised <=>
                  \/ ~build_log[j].input.team_mapping.exists
                  \/ PlayersProcessed(build_log[j].input.squads) = 0
            /\ build_log[j].raised =>
                  build_log[j].players =
                     (IF j = 1 THEN NoFile ELSE build_log[j - 1].players)

(* The first player build ran on a saved team mapping whose squads came   *)
(* back empty: it raised and no file was written.                         *)
NothingProcessedNothingSaved ==
    \E j \in DOMAIN build_log :
        /\ build_log[j].builder = "player"
        /\ build_log[j].input.team_mapping.exists
        /\ build_log[j].input.team_mapping.rows # <<>>
        /\ PlayersProcessed(build_log[j].input.squads) = 0
        /\ build_log[j].raised
        /\ ~build_log[j].players.exists

====
